---- MODULE Spec2Model ----
(***************************************************************************)
(* The scoring and matching engine of the tender-response agents:          *)
(*   technical_agent/agent.py  text normalisation and specification match  *)
(*   scoring_agent/agent.py    composite opportunity score                 *)
(*   sales_agent/agent.py      tender selection                            *)
(*                                                                         *)
(* Representation.                                                         *)
(*   A Python str is a sequence of one-character strings.                  *)
(*   A score that the code rounds to 2 decimals is an integer number of    *)
(*   hundredths (62.25 is 6225); a weight is an integer number of          *)
(*   hundredths too (0.35 is 35), so score * weight is in 1/10000.         *)
(*   round(x, 2) is rounding to the nearest hundredth, an exact tie going  *)
(*   to the even neighbour.                                                *)
(***************************************************************************)
EXTENDS Integers, Sequences, FiniteSets, TLC

VARIABLES
    SPEC_WEIGHTS,     \* technical_agent: module-level dict
    SCORING_WEIGHTS,  \* scoring_agent: module-level dict
    normalizer,       \* one run of normalize_text on two inputs
    matcher,          \* one call of match_products_advanced
    scorer,           \* one call of calculate_final_score
    selector,         \* one call of select_best_rfp
    pricer,           \* one run of the pricing tools on a recommendation list
    pipeline,         \* one run of the agent pipeline and its session state
    reader,           \* one scoring or pricing run and the catalog file it loads
    replay,           \* runs repeated on the same inputs: the clock, the shared
                      \* random generator and each run's output
    helper            \* one call of fuzzy_match or of calculate_component_scores

vars == <<SPEC_WEIGHTS, SCORING_WEIGHTS, normalizer, matcher, scorer, selector,
          pricer, pipeline, reader, replay, helper>>

weights == <<SPEC_WEIGHTS, SCORING_WEIGHTS>>

(***************************************************************************)
(* Bounds of the model.                                                    *)
(***************************************************************************)
MaxTextLen == 3
MaxCatalog == 2
MaxMatches == 2
MaxTenders == 3
MaxRecommendations == 2
MaxDaysElapsed == 2

(***************************************************************************)
(* Characters and strings.                                                 *)
(***************************************************************************)
UPPER == <<"A","B","C","D","E","F","G","H","I","J","K","L","M",
           "N","O","P","Q","R","S","T","U","V","W","X","Y","Z">>

LOWER == <<"a","b","c","d","e","f","g","h","i","j","k","l","m",
           "n","o","p","q","r","s","t","u","v","w","x","y","z">>

DIGITS == <<"0","1","2","3","4","5","6","7","8","9">>

Range(s) == {s[i] : i \in DOMAIN s}

\* str.lower() on one character
LowerOf == [c \in Range(UPPER) |-> LOWER[CHOOSE i \in DOMAIN UPPER : UPPER[i] = c]]

LowerChar(c) == IF c \in DOMAIN LowerOf THEN LowerOf[c] ELSE c

\* str.lower()
lower(s) == [i \in DOMAIN s |-> LowerChar(s[i])]

SpaceChars == {" ", "\t", "\n", "\r"}

WordChars == Range(UPPER) \cup Range(LOWER) \cup Range(DIGITS) \cup {"_"}

\* a character the regular expression class \s matches
IsSpace(c) == c \in SpaceChars

\* a character the regular expression class \w matches
IsWord(c) == c \in WordChars

RECURSIVE lstrip(_)
lstrip(s) ==
    IF s # <<>> /\ IsSpace(Head(s)) THEN lstrip(Tail(s)) ELSE s

RECURSIVE rstrip(_)
rstrip(s) ==
    IF s # <<>> /\ IsSpace(s[Len(s)]) THEN rstrip(SubSeq(s, 1, Len(s) - 1)) ELSE s

\* str.strip()
strip(s) == rstrip(lstrip(s))

\* re.sub(r'[^\w\s]', ' ', s)
SubNonWord(s) ==
    [i \in DOMAIN s |-> IF IsWord(s[i]) \/ IsSpace(s[i]) THEN s[i] ELSE " "]

\* re.sub(r'\s+', ' ', s)
RECURSIVE SubSpaces(_)
SubSpaces(s) ==
    IF s = <<>> THEN <<>>
    ELSE IF IsSpace(Head(s))
         THEN <<" ">> \o SubSpaces(lstrip(s))
         ELSE <<Head(s)>> \o SubSpaces(Tail(s))

\* p in t, for Python strings
In(p, t) ==
    \E i \in 0..(Len(t) - Len(p)) : SubSeq(t, i + 1, i + Len(p)) = p

\* technical_agent.normalize_text
normalize_text(text) ==
    IF text = <<>> THEN <<>>
    ELSE SubSpaces(SubNonWord(strip(lower(text))))

(***************************************************************************)
(* Inputs of the normaliser.                                               *)
(***************************************************************************)
NormAlphabet == {"a", "B", " ", "!"}

RECURSIVE StringsUpTo(_, _)
StringsUpTo(alphabet, n) ==
    IF n = 0 THEN {<<>>}
    ELSE LET shorter == StringsUpTo(alphabet, n - 1)
         IN  shorter \cup {Append(s, c) : s \in shorter, c \in alphabet}

\* "XLPE  Cable!"
TextXlpeCableBang ==
    <<"X","L","P","E"," "," ","C","a","b","l","e","!">>

\* "xlpe cable"
TextXlpeCable ==
    <<"x","l","p","e"," ","c","a","b","l","e">>

NormInputs ==
    StringsUpTo(NormAlphabet, MaxTextLen) \cup {TextXlpeCableBang, TextXlpeCable}

NormIdle == [pc |-> "idle"]

InitNormalizer ==
    \E x \in NormInputs, y \in NormInputs :
        normalizer = [pc |-> "start", x |-> x, y |-> y]

\* normalize_text(x) and normalize_text(y)
NormalizeInputs ==
    /\ normalizer.pc = "start"
    /\ normalizer' = [pc |-> "once", x |-> normalizer.x, y |-> normalizer.y,
                      fx |-> normalize_text(normalizer.x),
                      fy |-> normalize_text(normalizer.y)]
    /\ UNCHANGED <<weights, matcher, scorer, selector, pricer, pipeline, reader, replay, helper>>

\* normalize_text(normalize_text(x))
NormalizeAgain ==
    /\ normalizer.pc = "once"
    /\ normalizer' = [normalizer EXCEPT !.pc = "twice"]
                         @@ [ffx |-> normalize_text(normalizer.fx)]
    /\ UNCHANGED <<weights, matcher, scorer, selector, pricer, pipeline, reader, replay, helper>>

(***************************************************************************)
(* technical_agent: the specification matcher.                             *)
(***************************************************************************)
\* the table with the voltage weight raised and no other weight lowered
SPEC_WEIGHTS_VOLTAGE_30 ==
    [voltage |-> 30, standards |-> 20, conductor |-> 18,
     insulation |-> 15, cores |-> 12, armoring |-> 10]

SPEC_WEIGHTS_TABLE ==
    [voltage |-> 25, standards |-> 20, conductor |-> 18,
     insulation |-> 15, cores |-> 12, armoring |-> 10]

SpecNames == {"voltage", "standards", "conductor", "insulation", "cores", "armoring"}

MATERIAL_SYNONYMS ==
    << <<"copper", << <<"c","u">>, <<"c","o","p","p","e","r">>,
                      <<"c","o","p","p","p","e","r">> >> >>,
       <<"aluminum", << <<"a","l">>, <<"a","l","u","m","i","n","i","u","m">>,
                        <<"a","l","u","m","i","n","u","m">>,
                        <<"a","l","u","m","u","n","i","u","m">> >> >>,
       <<"steel", << <<"s","t">>, <<"s","t","e","e","l">>, <<"s","t","l">> >> >> >>

INSULATION_SYNONYMS ==
    << <<"xlpe", << <<"x","l","p","e">>,
                    <<"c","r","o","s","s","-","l","i","n","k","e","d"," ","p","o","l","y","e","t","h","y","l","e","n","e">>,
                    <<"c","r","o","s","s"," ","l","i","n","k","e","d"," ","p","o","l","y","e","t","h","y","l","e","n","e">> >> >>,
       <<"pvc", << <<"p","v","c">>,
                   <<"p","o","l","y","v","i","n","y","l"," ","c","h","l","o","r","i","d","e">>,
                   <<"p","o","l","y"," ","v","i","n","y","l"," ","c","h","l","o","r","i","d","e">> >> >>,
       <<"epr", << <<"e","p","r">>,
                   <<"e","t","h","y","l","e","n","e"," ","p","r","o","p","y","l","e","n","e"," ","r","u","b","b","e","r">> >> >> >>

\* the generic standards tokens with "kv" counted as one of them
STANDARD_TOKENS_WITH_KV ==
    << <<"i","s">>, <<"i","e","c">>, <<"i","e","e","e">>, <<"b","i","s">>,
       <<"k","v">> >>

\* the generic standards tokens of calculate_component_scores
STANDARD_TOKENS ==
    << <<"i","s">>, <<"i","e","c">>, <<"i","e","e","e">>, <<"b","i","s">> >>

\* technical_agent.fuzzy_match
fuzzy_match(value, text, synonyms) ==
    LET norm_value == normalize_text(value)
        norm_text  == normalize_text(text)
    IN  \/ In(norm_value, norm_text)
        \/ \E g \in DOMAIN synonyms :
              LET variants == synonyms[g][2]
              IN  /\ \/ norm_value \in Range(variants)
                     \/ \E v \in Range(variants) : In(v, norm_value)
                  /\ \E v \in Range(variants) : In(v, norm_text)

\* " ".join(parts)
RECURSIVE JoinSpace(_)
JoinSpace(parts) ==
    IF parts = <<>> THEN <<>>
    ELSE IF Len(parts) = 1 THEN parts[1]
    ELSE parts[1] \o <<" ">> \o JoinSpace(Tail(parts))

\* A technical brief: none is None or {}; tech_specs is a str, or a dict whose
\* values are the strings of tech_values.
Brief(scope, specs) ==
    [none |-> FALSE, scope_of_supply |-> scope, is_dict |-> FALSE,
     technical_specifications |-> specs, tech_values |-> <<>>]

\* technical_agent.flatten_rfp_specs
flatten_rfp_specs(technical_brief) ==
    IF technical_brief.none THEN <<>>
    ELSE LET scope == technical_brief.scope_of_supply
             tech_specs == IF technical_brief.is_dict
                           THEN JoinSpace(technical_brief.tech_values)
                           ELSE technical_brief.technical_specifications
         IN  normalize_text(scope \o <<" ">> \o tech_specs)

\* A cell of the product table: a string, a missing value (pandas NaN) or no
\* such column.  str(product_row.get(column, ''))
Cell(s) == [kind |-> "str", val |-> s]
NaNCell == [kind |-> "nan", val |-> <<>>]
NoColumn == [kind |-> "absent", val |-> <<>>]

str_get(cell) ==
    CASE cell.kind = "str" -> cell.val
      [] cell.kind = "nan" -> <<"n","a","n">>
      [] OTHER -> <<>>

\* str(n) for a non-negative int
RECURSIVE str_int(_)
str_int(n) ==
    IF n < 10 THEN <<DIGITS[n + 1]>>
    ELSE str_int(n \div 10) \o <<DIGITS[(n % 10) + 1]>>

\* technical_agent.calculate_component_scores
calculate_component_scores(product_row, rfp_text) ==
    LET voltage    == str_get(product_row.Voltage_Rating)
        standards  == str_get(product_row.Standards_Compliance)
        conductor  == str_get(product_row.Conductor_Material)
        insulation == str_get(product_row.Insulation_Type)
        cores      == str_int(product_row.Number_of_Cores)
        armoring   == str_get(product_row.Armoring)
    IN  [voltage |-> IF In(normalize_text(voltage), rfp_text) THEN 100 ELSE 0,
         standards |->
             IF In(normalize_text(standards), rfp_text) THEN 100
             ELSE IF \E i \in DOMAIN STANDARD_TOKENS : In(STANDARD_TOKENS[i], rfp_text)
                  THEN 60 ELSE 0,
         conductor |->
             IF fuzzy_match(conductor, rfp_text, MATERIAL_SYNONYMS) THEN 100 ELSE 0,
         insulation |->
             IF fuzzy_match(insulation, rfp_text, INSULATION_SYNONYMS) THEN 100 ELSE 0,
         cores |->
             IF \/ In(cores, rfp_text)
                \/ In(cores \o <<"c">>, rfp_text)
                \/ In(cores \o <<" ","c","o","r","e">>, rfp_text)
             THEN 100 ELSE 0,
         armoring |-> IF In(normalize_text(armoring), rfp_text) THEN 100 ELSE 0]

RECURSIVE SumOver(_, _)
SumOver(f, S) ==
    IF S = {} THEN 0
    ELSE LET k == CHOOSE k \in S : TRUE
         IN  f[k] + SumOver(f, S \ {k})

\* the weighted score with the armoring component left out
WeightedScoreSkipsArmoring(component_scores) ==
    SumOver([spec \in DOMAIN SPEC_WEIGHTS \ {"armoring"} |->
                 (IF spec \in DOMAIN component_scores
                  THEN component_scores[spec] ELSE 0) * SPEC_WEIGHTS[spec]],
            DOMAIN SPEC_WEIGHTS \ {"armoring"})

\* technical_agent.calculate_weighted_score, in hundredths: every product
\* score * weight is a whole number of hundredths, which round(.., 2) keeps.
calculate_weighted_score(component_scores) ==
    SumOver([spec \in DOMAIN SPEC_WEIGHTS |->
                 (IF spec \in DOMAIN component_scores
                  THEN component_scores[spec] ELSE 0) * SPEC_WEIGHTS[spec]],
            DOMAIN SPEC_WEIGHTS)

\* list.sort(key = .key, reverse = True): stable, so of two entries with equal
\* keys the one that was first stays first
RECURSIVE InsertDesc(_, _)
InsertDesc(sorted, e) ==
    IF sorted = <<>> THEN <<e>>
    ELSE IF Head(sorted).key >= e.key
         THEN <<Head(sorted)>> \o InsertDesc(Tail(sorted), e)
         ELSE <<e>> \o sorted

RECURSIVE SortDesc(_)
SortDesc(s) ==
    IF s = <<>> THEN <<>>
    ELSE InsertDesc(SortDesc(SubSeq(s, 1, Len(s) - 1)), s[Len(s)])

\* s[:k] for a Python list
SliceTo(s, k) ==
    IF k >= 0 THEN SubSeq(s, 1, IF k < Len(s) THEN k ELSE Len(s))
    ELSE SubSeq(s, 1, IF Len(s) + k > 0 THEN Len(s) + k ELSE 0)

\* the dict appended for one product row
MatchOf(row, component_scores, weighted_score) ==
    [product_id |-> row.Product_ID,
     category |-> row.Category,
     spec_match_percent |-> weighted_score,
     component_scores |-> component_scores,
     unit_price |-> row.Unit_Price_INR_per_meter,
     lead_time_days |-> row.Lead_Time_Days,
     bis_certified |-> row.BIS_Certified]

\* the loop over product_db.iterrows(): every row with its scores
ScoredRows(product_db, rfp_text) ==
    [i \in DOMAIN product_db |->
        LET component_scores == calculate_component_scores(product_db[i], rfp_text)
        IN  MatchOf(product_db[i], component_scores,
                    calculate_weighted_score(component_scores))]

\* the threshold applied as a strict comparison
SelectAbove(rows, min_score) ==
    SelectSeq(rows, LAMBDA m : m.spec_match_percent > min_score)

\* if weighted_score >= min_score: matches.append(...)
SelectAtLeast(rows, min_score) ==
    SelectSeq(rows, LAMBDA m : m.spec_match_percent >= min_score)

\* a descending sort that puts products of equal score in reverse catalog order
SortMatchesTiesReversed(rows) ==
    LET n == Len(rows)
        keyed == [i \in DOMAIN rows |->
                     [key |-> rows[n + 1 - i].spec_match_percent,
                      item |-> rows[n + 1 - i]]]
        sorted == SortDesc(keyed)
    IN  [i \in DOMAIN sorted |-> sorted[i].item]

\* matches.sort(key=lambda x: x["spec_match_percent"], reverse=True)
SortMatches(rows) ==
    LET keyed == [i \in DOMAIN rows |->
                     [key |-> rows[i].spec_match_percent, item |-> rows[i]]]
        sorted == SortDesc(keyed)
    IN  [i \in DOMAIN sorted |-> sorted[i].item]

\* the loop entered without the three early returns
LoopRowsUnguarded(technical_brief, product_db) ==
    ScoredRows(product_db, flatten_rfp_specs(technical_brief))

\* the matches the loop of match_products_advanced has built before the
\* threshold is applied: none when the call returns before the loop
LoopRows(technical_brief, product_db) ==
    IF technical_brief.none THEN <<>>
    ELSE IF product_db = <<>> THEN <<>>
    ELSE LET rfp_text == flatten_rfp_specs(technical_brief)
         IN  IF rfp_text = <<>> THEN <<>>
             ELSE ScoredRows(product_db, rfp_text)

\* technical_agent.match_products_advanced
match_products_advanced(technical_brief, product_db, min_score, max_results) ==
    SliceTo(SortMatches(SelectAtLeast(LoopRows(technical_brief, product_db),
                                      min_score)),
            max_results)

(***************************************************************************)
(* The product table: _create_mock_database, and the rows of a workbook.   *)
(***************************************************************************)
MOCK_ROW_1 ==
    [Product_ID |-> "PROD_001", Category |-> "Power Cables",
     Voltage_Rating |-> Cell(<<"1","1","k","V">>),
     Standards_Compliance |-> Cell(<<"I","S"," ","7","0","9","8",","," ","I","E","C"," ","6","0","5","0","2">>),
     Conductor_Material |-> Cell(<<"C","o","p","p","e","r">>),
     Insulation_Type |-> Cell(<<"X","L","P","E">>),
     Number_of_Cores |-> 3, Armoring |-> Cell(<<"S","W","A">>),
     Unit_Price_INR_per_meter |-> 1200, Lead_Time_Days |-> 30, BIS_Certified |-> TRUE,
     Min_Order_Qty_Meters |-> 1000, Warranty_Years |-> 2]

MOCK_ROW_2 ==
    [Product_ID |-> "PROD_002", Category |-> "Power Cables",
     Voltage_Rating |-> Cell(<<"1","1","k","V">>),
     Standards_Compliance |-> Cell(<<"I","S"," ","7","0","9","8",","," ","I","E","C"," ","6","0","5","0","2">>),
     Conductor_Material |-> Cell(<<"C","o","p","p","e","r">>),
     Insulation_Type |-> Cell(<<"X","L","P","E">>),
     Number_of_Cores |-> 4, Armoring |-> Cell(<<"S","W","A">>),
     Unit_Price_INR_per_meter |-> 1500, Lead_Time_Days |-> 35, BIS_Certified |-> TRUE,
     Min_Order_Qty_Meters |-> 1000, Warranty_Years |-> 2]

MOCK_ROW_3 ==
    [Product_ID |-> "PROD_003", Category |-> "Power Cables",
     Voltage_Rating |-> Cell(<<"3","3","k","V">>),
     Standards_Compliance |-> Cell(<<"I","S"," ","7","0","9","8",","," ","I","E","C"," ","6","0","5","0","2">>),
     Conductor_Material |-> Cell(<<"A","l","u","m","i","n","u","m">>),
     Insulation_Type |-> Cell(<<"X","L","P","E">>),
     Number_of_Cores |-> 3, Armoring |-> Cell(<<"S","W","A">>),
     Unit_Price_INR_per_meter |-> 2000, Lead_Time_Days |-> 45, BIS_Certified |-> TRUE,
     Min_Order_Qty_Meters |-> 1500, Warranty_Years |-> 3]

MOCK_ROW_4 ==
    [Product_ID |-> "PROD_004", Category |-> "Power Cables",
     Voltage_Rating |-> Cell(<<"1","1","k","V">>),
     Standards_Compliance |-> Cell(<<"I","S"," ","7","0","9","8",","," ","I","E","C"," ","6","0","5","0","2">>),
     Conductor_Material |-> Cell(<<"C","o","p","p","e","r">>),
     Insulation_Type |-> Cell(<<"P","V","C">>),
     Number_of_Cores |-> 3, Armoring |-> Cell(<<"N","o","n","e">>),
     Unit_Price_INR_per_meter |-> 800, Lead_Time_Days |-> 25, BIS_Certified |-> TRUE,
     Min_Order_Qty_Meters |-> 800, Warranty_Years |-> 1]

MOCK_ROW_5 ==
    [Product_ID |-> "PROD_005", Category |-> "Power Cables",
     Voltage_Rating |-> Cell(<<"6",".","6","k","V">>),
     Standards_Compliance |-> Cell(<<"I","S"," ","7","0","9","8",","," ","I","E","C"," ","6","0","5","0","2">>),
     Conductor_Material |-> Cell(<<"C","o","p","p","e","r">>),
     Insulation_Type |-> Cell(<<"X","L","P","E">>),
     Number_of_Cores |-> 3, Armoring |-> Cell(<<"S","W","A">>),
     Unit_Price_INR_per_meter |-> 1000, Lead_Time_Days |-> 28, BIS_Certified |-> TRUE,
     Min_Order_Qty_Meters |-> 1000, Warranty_Years |-> 2]

\* _create_mock_database
MOCK_DATABASE == <<MOCK_ROW_1, MOCK_ROW_2, MOCK_ROW_3, MOCK_ROW_4, MOCK_ROW_5>>

\* A workbook row with no standards column: voltage "11kV", conductor "Copper",
\* insulation "XLPE", 3 cores, armoring "SWA".
ROW_NO_STANDARDS ==
    [Product_ID |-> "CAT_101", Category |-> "Power Cables",
     Voltage_Rating |-> Cell(<<"1","1","k","V">>),
     Standards_Compliance |-> NoColumn,
     Conductor_Material |-> Cell(<<"C","o","p","p","e","r">>),
     Insulation_Type |-> Cell(<<"X","L","P","E">>),
     Number_of_Cores |-> 3, Armoring |-> Cell(<<"S","W","A">>),
     Unit_Price_INR_per_meter |-> 1200, Lead_Time_Days |-> 30, BIS_Certified |-> TRUE,
     Min_Order_Qty_Meters |-> 1000, Warranty_Years |-> 2]

\* The same row in a workbook whose standards cell is empty (pandas NaN).
ROW_NAN_STANDARDS ==
    [Product_ID |-> "CAT_102", Category |-> "Power Cables",
     Voltage_Rating |-> Cell(<<"1","1","k","V">>),
     Standards_Compliance |-> NaNCell,
     Conductor_Material |-> Cell(<<"C","o","p","p","e","r">>),
     Insulation_Type |-> Cell(<<"X","L","P","E">>),
     Number_of_Cores |-> 3, Armoring |-> Cell(<<"S","W","A">>),
     Unit_Price_INR_per_meter |-> 1200, Lead_Time_Days |-> 30, BIS_Certified |-> TRUE,
     Min_Order_Qty_Meters |-> 1000, Warranty_Years |-> 2]

ProductPool ==
    {MOCK_ROW_1, MOCK_ROW_4, MOCK_ROW_5, ROW_NO_STANDARDS, ROW_NAN_STANDARDS}

\* the sequences of at most n distinct rows of a pool
RECURSIVE TablesUpTo(_, _)
TablesUpTo(pool, n) ==
    IF n = 0 THEN {<<>>}
    ELSE LET shorter == TablesUpTo(pool, n - 1)
         IN  shorter \cup {Append(t, r) : t \in shorter, r \in pool} 

DistinctRows(t) == \A i, j \in DOMAIN t : i # j => t[i].Product_ID # t[j].Product_ID

Catalogs ==
    {t \in TablesUpTo(ProductPool, MaxCatalog) : DistinctRows(t)} \cup {MOCK_DATABASE}

\* "Voltage Rating: 11 kV, Conductor: Copper, Insulation: XLPE, Cores: 3"
TextScenario ==
    <<"V","o","l","t","a","g","e"," ","R","a","t","i","n","g",":"," ","1","1"," ","k","V",","," ","C","o","n","d","u","c","t","o","r",":"," ","C","o","p","p","e","r",","," ","I","n","s","u","l","a","t","i","o","n",":"," ","X","L","P","E",","," ","C","o","r","e","s",":"," ","3">>

\* "11kV XLPE 3 core copper cable, SWA armoured, IS 7098, IEC 60502"
TextFullMatch ==
    <<"1","1","k","V"," ","X","L","P","E"," ","3"," ","c","o","r","e"," ","c","o","p","p","e","r"," ","c","a","b","l","e",","," ","S","W","A"," ","a","r","m","o","u","r","e","d",","," ","I","S"," ","7","0","9","8",","," ","I","E","C"," ","6","0","5","0","2">>

\* "fibre optic patch cord"
TextNoMatch ==
    <<"f","i","b","r","e"," ","o","p","t","i","c"," ","p","a","t","c","h"," ","c","o","r","d">>

NoBrief ==
    [none |-> TRUE, scope_of_supply |-> <<>>, is_dict |-> FALSE,
     technical_specifications |-> <<>>, tech_values |-> <<>>]

Briefs ==
    {NoBrief,
     Brief(<<>>, <<>>),
     Brief(<<>>, TextScenario),
     Brief(TextFullMatch, <<>>),
     Brief(<<>>, TextNoMatch),
     [none |-> FALSE, scope_of_supply |-> <<>>, is_dict |-> TRUE,
      technical_specifications |-> <<>>,
      tech_values |-> << <<"1","1","k","V">>, <<"C","u">>, <<"3","C">> >>]}

\* min_score, in hundredths; 30.0 is the default
MinScores == {0, 3000, 7500}

\* max_results; 10 is the default
MaxResults == {0, 1, 2, 10}

MatcherIdle == [pc |-> "idle"]

InitMatcher ==
    \E b \in Briefs, db \in Catalogs, ms \in MinScores, mr \in MaxResults :
        matcher = [pc |-> "start", technical_brief |-> b, product_db |-> db,
                   min_score |-> ms, max_results |-> mr]

\* one call of match_products_advanced; scored keeps what the loop computed
\* for every row, returned is the list the call returns
MatchProductsAdvanced ==
    /\ matcher.pc = "start"
    /\ matcher' =
          [pc |-> "returned",
           technical_brief |-> matcher.technical_brief,
           product_db |-> matcher.product_db,
           min_score |-> matcher.min_score,
           max_results |-> matcher.max_results,
           rfp_text |-> flatten_rfp_specs(matcher.technical_brief),
           scored |-> LoopRows(matcher.technical_brief, matcher.product_db),
           returned |-> match_products_advanced(matcher.technical_brief,
                                                matcher.product_db,
                                                matcher.min_score,
                                                matcher.max_results)]
    /\ UNCHANGED <<weights, normalizer, scorer, selector, pricer, pipeline, reader, replay, helper>>

(***************************************************************************)
(* Arithmetic on hundredths.                                               *)
(***************************************************************************)
Min(a, b) == IF a <= b THEN a ELSE b
Max(a, b) == IF a >= b THEN a ELSE b

\* round(base + n / d) for n >= 0 and d > 0, a tie going to the even neighbour
RoundFrom(base, n, d) ==
    LET q == base + (n \div d)
        r == n % d
    IN  IF 2 * r < d THEN q
        ELSE IF 2 * r > d THEN q + 1
        ELSE IF q % 2 = 0 THEN q ELSE q + 1

\* round(n / d)
RoundDiv(n, d) == RoundFrom(0, n, d)

\* floor(a * 10000 / c) for a >= 0 and c > 0, in two steps of 100 that stay
\* within the machine word
TimesTenThousandDiv(a, c) ==
    LET x == a * 100
        q == x \div c
        r == x % c
    IN  q * 100 + (r * 100) \div c

\* floor(sqrt(n))
RECURSIVE IsqrtBetween(_, _, _)
IsqrtBetween(n, lo, hi) ==
    IF lo >= hi THEN lo
    ELSE LET mid == (lo + hi + 1) \div 2
         IN  IF mid * mid <= n THEN IsqrtBetween(n, mid, hi)
             ELSE IsqrtBetween(n, lo, mid - 1)

Isqrt(n) == IsqrtBetween(n, 0, 46340)

RECURSIVE Gcd(_, _)
Gcd(a, b) == IF b = 0 THEN a ELSE Gcd(b, a % b)

RECURSIVE SumSeq(_)
SumSeq(s) == IF s = <<>> THEN 0 ELSE Head(s) + SumSeq(Tail(s))

RECURSIVE GcdSeq(_)
GcdSeq(s) == IF s = <<>> THEN 0 ELSE Gcd(Head(s), GcdSeq(Tail(s)))

(***************************************************************************)
(* scoring_agent: the opportunity scorer.                                  *)
(***************************************************************************)
SCORING_WEIGHTS_TABLE ==
    [technical_match |-> 35, price_competitiveness |-> 25,
     delivery_capability |-> 15, compliance |-> 15, risk_score |-> 10]

\* IDEAL_MARGIN = 0.25, in 1/10000
IDEAL_MARGIN == 2500

\* math.exp(-0.3 * i) for i = 0..4, in 1/10000
EXP_DECAY == <<10000, 7408, 5488, 4066, 3012>>

\* 100 / (1 + math.exp(10 * (d - 0.10))) in 1/10000, at d = 0.00, 0.01, .. 1.11;
\* past the table the value rounds to 0.00
SIGMOID ==
  <<
     731059, 710950, 689974, 668188, 645656, 622459, 598688, 574443,
     549834, 524979, 500000, 475021, 450166, 425557, 401312, 377541,
     354344, 331812, 310026, 289050, 268941, 249740, 231475, 214165,
     197816, 182426, 167982, 154465, 141851, 130108, 119203, 109097,
     99750, 91123, 83173, 75858, 69138, 62973, 57324, 52154,
     47426, 43107, 39166, 35571, 32295, 29312, 26597, 24127,
     21881, 19840, 17986, 16302, 14774, 13387, 12128, 10987,
     9952, 9013, 8163, 7392, 6693, 6060, 5486, 4967,
     4496, 4070, 3684, 3335, 3018, 2732, 2473, 2238,
     2025, 1833, 1659, 1501, 1359, 1229, 1113, 1007,
     911, 824, 746, 675, 611, 553, 500, 453,
     410, 371, 335, 303, 275, 248, 225, 203,
     184, 167, 151, 136, 123, 112, 101, 91,
     83, 75, 68, 61, 55, 50, 45, 41
  >>

\* the table read at a deviation given in 1/10000, linear between two entries
Sigmoid(dev) ==
    LET k == dev \div 100
        f == dev % 100
    IN  IF k + 2 > Len(SIGMOID) THEN 0
        ELSE SIGMOID[k + 1] - ((SIGMOID[k + 1] - SIGMOID[k + 2]) * f) \div 100

\* A match dict: none is a None or {} entry; product_id "" is no (or an empty)
\* product_id; spec_match_percent is in hundredths.
Match(id, cat, percent, lead) ==
    [none |-> FALSE, product_id |-> id, category |-> cat,
     spec_match_percent |-> percent, lead_time_days |-> lead]

NoneMatch ==
    [none |-> TRUE, product_id |-> "", category |-> "",
     spec_match_percent |-> 0, lead_time_days |-> 0]

\* [m for m in matches if m]
Truthy(matches) == SelectSeq(matches, LAMBDA m : ~m.none)

\* product_db[product_db['Product_ID'] == product_id]
RowsOf(product_db, product_id) ==
    SelectSeq(product_db, LAMBDA r : r.Product_ID = product_id)

\* the matches whose product_id is set and found in the table, each with its row
FoundRows(matches, product_db) ==
    LET with_id == SelectSeq(Truthy(matches), LAMBDA m : m.product_id # "")
        found   == SelectSeq(with_id, LAMBDA m : RowsOf(product_db, m.product_id) # <<>>)
    IN  [i \in DOMAIN found |-> RowsOf(product_db, found[i].product_id)[1]]

\* 'Standards_Compliance' in product_row
HasStandardsColumn(product_row) == product_row.Standards_Compliance.kind # "absent"

\* scoring_agent.score_technical_match
score_technical_match(matches) ==
    LET valid_matches == SelectSeq(Truthy(matches), LAMBDA m : m.spec_match_percent > 0)
        top == SubSeq(valid_matches, 1, Min(5, Len(valid_matches)))
        total_score  == SumSeq([i \in DOMAIN top |-> top[i].spec_match_percent * EXP_DECAY[i]])
        total_weight == SumSeq([i \in DOMAIN top |-> EXP_DECAY[i]])
        good_matches == Len(SelectSeq(valid_matches, LAMBDA m : m.spec_match_percent >= 7000))
        \* diversity_multiplier, in twentieths
        diversity == Min(20 + (good_matches - 1), 23)
        \* weighted_avg * diversity_multiplier = total_score * diversity / (20 * total_weight)
        q == total_score \div total_weight
        r == total_score % total_weight
        x == q * diversity
        final_score ==
            RoundFrom(x \div 20, (x % 20) * total_weight + r * diversity, 20 * total_weight)
    IN  IF matches = <<>> \/ valid_matches = <<>>
        THEN [technical_score |-> 0, top_match_percent |-> 0, diversity_bonus |-> 0]
        ELSE [technical_score |-> Min(final_score, 10000),
              top_match_percent |-> valid_matches[1].spec_match_percent,
              diversity_bonus |-> (diversity - 20) * 500,
              matches_evaluated |-> Len(valid_matches)]

\* scoring_agent.calculate_actual_cost
calculate_actual_cost(matches, product_db) ==
    LET rows == FoundRows(matches, product_db)
    IN  SumSeq([i \in DOMAIN rows |->
                   rows[i].Unit_Price_INR_per_meter * rows[i].Min_Order_Qty_Meters])

\* math.exp(10 * (margin_deviation - 0.10)) raises OverflowError when its
\* argument passes 709.78, that is when actual_cost > 71.828 * estimated_price
ExpOverflows(estimated_price, actual_cost) ==
    LET q == actual_cost \div estimated_price
        r == actual_cost % estimated_price
    IN  q >= 72 \/ (q = 71 /\ r * 1000 > 828 * estimated_price)

\* scoring_agent.score_price_competitiveness; raised tells that math.exp raised
score_price_competitiveness(estimated_price, matches, product_db) ==
    LET db_cost  == calculate_actual_cost(matches, product_db)
        fallback == db_cost <= 0
        \* margin = (estimated_price - actual_cost) / estimated_price, in 1/10000
        margin == IF fallback THEN 3000
                  ELSE 10000 - TimesTenThousandDiv(db_cost, estimated_price)
        margin_deviation == IF margin >= IDEAL_MARGIN THEN margin - IDEAL_MARGIN
                            ELSE IDEAL_MARGIN - margin
        score == Sigmoid(margin_deviation)
        too_low  == ~fallback /\ 20 * (estimated_price - db_cost) < estimated_price
        too_high == ~fallback /\ 2 * (estimated_price - db_cost) > estimated_price
        penalised == IF too_low THEN score * 5
                     ELSE IF too_high THEN score * 6 ELSE score * 10
    IN  IF estimated_price <= 0 \/ matches = <<>>
        THEN [raised |-> FALSE, price_score |-> 0, pricing_assessment |-> "invalid"]
        ELSE IF ~fallback /\ ExpOverflows(estimated_price, db_cost)
        THEN [raised |-> TRUE, price_score |-> 0, pricing_assessment |-> "OverflowError"]
        ELSE [raised |-> FALSE,
              price_score |-> Max(0, Min(RoundDiv(penalised, 1000), 10000)),
              pricing_assessment |-> IF too_low THEN "too_low"
                                     ELSE IF too_high THEN "too_high" ELSE "optimal"]

\* A deadline: kind "none" is None or "", "unparseable" a string that
\* datetime.fromisoformat rejects, "date" a date with days = (deadline - now).days
NoDeadline == [kind |-> "none", days |-> 0]
BadDeadline == [kind |-> "unparseable", days |-> 0]
DateIn(days) == [kind |-> "date", days |-> days]

\* scoring_agent.score_delivery_capability
score_delivery_capability(matches, deadline) ==
    LET truthy == Truthy(matches)
        n == Len(truthy)
        total_lead == SumSeq([i \in DOMAIN truthy |-> truthy[i].lead_time_days])
        \* avg_lead_time = total_lead / n; time_buffer < b is days * n - total_lead < b * n
        buffer_n == deadline.days * n - total_lead
        urgency_penalty ==
            IF deadline.kind = "date" /\ deadline.days > 0
            THEN IF n = 0
                 THEN (IF deadline.days < 14 THEN 30 ELSE IF deadline.days < 30 THEN 15 ELSE 0)
                 ELSE IF buffer_n < 0 THEN 50
                 ELSE IF buffer_n < 14 * n THEN 30
                 ELSE IF buffer_n < 30 * n THEN 15 ELSE 0
            ELSE 0
        \* base_score - urgency_penalty, in hundredths, times n
        numerator == (10000 - 100 * urgency_penalty) * n - 110 * total_lead
    IN  IF matches = <<>>
        THEN [delivery_score |-> 0, urgency_penalty |-> 0, has_days |-> FALSE, days_until_deadline |-> 0]
        ELSE [delivery_score |->
                  IF n = 0 THEN 10000 - 100 * urgency_penalty
                  ELSE IF 10000 * n - 110 * total_lead <= 0 \/ numerator <= 0 THEN 0
                  ELSE RoundDiv(numerator, n),
              urgency_penalty |-> urgency_penalty,
              has_days |-> deadline.kind = "date",
              days_until_deadline |-> IF deadline.kind = "date" THEN deadline.days ELSE 0]

\* scoring_agent.score_compliance; raised tells that
\* str(product_row.get('Standards_Compliance', [''])).iloc[0] raised AttributeError,
\* which it does for the first found row of a table that has the column
score_compliance(matches, product_db) ==
    LET rows == FoundRows(matches, product_db)
        valid_count == Len(rows)
        bis_count == Len(SelectSeq(rows, LAMBDA r : r.BIS_Certified))
        \* without the column standards is '' for every row
        standards_count == 0
        total_warranty == SumSeq([i \in DOMAIN rows |-> rows[i].Warranty_Years])
        \* 0.4 * bis_percent + 0.4 * standards_percent + 20 * min(avg_warranty / 2, 1),
        \* in hundredths, times 2 * valid_count
        numerator == 8000 * (bis_count + standards_count)
                       + 2000 * Min(total_warranty, 2 * valid_count)
    IN  IF matches = <<>> THEN [raised |-> FALSE, compliance_score |-> 0]
        ELSE IF \E i \in DOMAIN rows : HasStandardsColumn(rows[i])
        THEN [raised |-> TRUE, compliance_score |-> 0]
        ELSE IF valid_count = 0 THEN [raised |-> FALSE, compliance_score |-> 0]
        ELSE [raised |-> FALSE, compliance_score |-> RoundDiv(numerator, 2 * valid_count)]

\* sqrt(n) in thousandths: floor(sqrt(n)) and one Newton step on the remainder
SqrtThousandths(n) ==
    LET i == Isqrt(n)
    IN  IF i = 0 THEN 0 ELSE i * 1000 + ((n - i * i) * 1000) \div (2 * i)

\* max(0, 20 - cv * 40) in hundredths, cv the coefficient of variation of moqs.
\* cv does not change when every value is divided by their common divisor g:
\* cv = sqrt(n * sum(x^2) - sum(x)^2) / sum(x).
Consistency(moqs) ==
    LET g == GcdSeq(moqs)
        xs == [i \in DOMAIN moqs |-> moqs[i] \div g]
        n == Len(xs)
        s == SumSeq(xs)
        v == n * SumSeq([i \in DOMAIN xs |-> xs[i] * xs[i]]) - s * s
        \* cv * 40 in hundredths
        cv_40 == IF v <= 2000
                 THEN RoundDiv(4 * SqrtThousandths(v * 1000000), 1000 * s)
                 ELSE RoundDiv(4 * SqrtThousandths(v), s)
    IN  IF g = 0 THEN 2000 ELSE Max(0, 2000 - cv_40)

\* scoring_agent.score_risk_assessment
score_risk_assessment(matches, product_db) ==
    LET availability_score == Min(Len(matches) * 10, 50)
        categories == {m.category : m \in Range(Truthy(matches))}
        diversity_score == Min(Cardinality(categories) * 10, 30)
        rows == FoundRows(matches, product_db)
        moqs == [i \in DOMAIN rows |-> rows[i].Min_Order_Qty_Meters]
        consistency_score == IF Len(moqs) > 1 THEN Consistency(moqs) ELSE 2000
    IN  IF matches = <<>>
        THEN [risk_score |-> 0, availability_score |-> 0, diversity_score |-> 0,
              consistency_score |-> 0]
        ELSE [risk_score |-> 100 * (availability_score + diversity_score) + consistency_score,
              availability_score |-> 100 * availability_score,
              diversity_score |-> 100 * diversity_score,
              consistency_score |-> consistency_score]

\* the grade chain of calculate_final_score, on a score in 1/10000
GradeOf(final_score) ==
    IF final_score >= 850000 THEN "A+"
    ELSE IF final_score >= 750000 THEN "A"
    ELSE IF final_score >= 650000 THEN "B+"
    ELSE IF final_score >= 550000 THEN "B"
    ELSE IF final_score >= 450000 THEN "C"
    ELSE "D"

\* scoring_agent.generate_recommendation: the template of the grade, with the
\* score shown to one decimal
generate_recommendation(final_score, grade) ==
    [template |-> grade, shown |-> RoundDiv(final_score, 1000)]

\* the weighted sum with the compliance score taken at the risk weight
WeightedFinalSlip(technical_score, price_score, delivery_score, compliance_score, risk_score) ==
    technical_score * SCORING_WEIGHTS.technical_match
      + price_score * SCORING_WEIGHTS.price_competitiveness
      + delivery_score * SCORING_WEIGHTS.delivery_capability
      + compliance_score * SCORING_WEIGHTS.risk_score
      + risk_score * SCORING_WEIGHTS.risk_score

\* the weighted sum of calculate_final_score, in 1/10000
WeightedFinal(technical_score, price_score, delivery_score, compliance_score, risk_score) ==
    technical_score * SCORING_WEIGHTS.technical_match
      + price_score * SCORING_WEIGHTS.price_competitiveness
      + delivery_score * SCORING_WEIGHTS.delivery_capability
      + compliance_score * SCORING_WEIGHTS.compliance
      + risk_score * SCORING_WEIGHTS.risk_score

\* scoring_agent.calculate_final_score
calculate_final_score(matches, estimated_price, rfp_deadline, product_db) ==
    LET tech_result == score_technical_match(matches)
        price_result == score_price_competitiveness(estimated_price, matches, product_db)
        delivery_result == score_delivery_capability(matches, rfp_deadline)
        compliance_result == score_compliance(matches, product_db)
        risk_result == score_risk_assessment(matches, product_db)
        technical_score == tech_result.technical_score
        price_score == price_result.price_score
        delivery_score == delivery_result.delivery_score
        compliance_score == compliance_result.compliance_score
        risk_score == risk_result.risk_score
        final_score == WeightedFinal(technical_score, price_score, delivery_score,
                                     compliance_score, risk_score)
        grade == GradeOf(final_score)
    IN  IF price_result.raised THEN [status |-> "raised", exception |-> "OverflowError"]
        ELSE IF compliance_result.raised
        THEN [status |-> "raised", exception |-> "AttributeError"]
        ELSE [status |-> "returned",
              final_score |-> RoundDiv(final_score, 100),
              grade |-> grade,
              normalized_score |-> RoundDiv(final_score, 1000),
              component_scores |->
                  [technical_match |-> technical_score,
                   price_competitiveness |-> price_score,
                   delivery_capability |-> delivery_score,
                   compliance |-> compliance_score,
                   risk_score |-> risk_score],
              weighted_contributions |->
                  [technical_match |->
                       RoundDiv(technical_score * SCORING_WEIGHTS.technical_match, 100),
                   price_competitiveness |->
                       RoundDiv(price_score * SCORING_WEIGHTS.price_competitiveness, 100),
                   delivery_capability |->
                       RoundDiv(delivery_score * SCORING_WEIGHTS.delivery_capability, 100),
                   compliance |->
                       RoundDiv(compliance_score * SCORING_WEIGHTS.compliance, 100),
                   risk_assessment |->
                       RoundDiv(risk_score * SCORING_WEIGHTS.risk_score, 100)],
              recommendation |-> generate_recommendation(final_score, grade)]

(***************************************************************************)
(* Inputs of the scorer.                                                   *)
(***************************************************************************)
\* a workbook with no Standards_Compliance column, one product not certified
WORKBOOK_DATABASE ==
    << [MOCK_ROW_1 EXCEPT !.Standards_Compliance = NoColumn],
       [MOCK_ROW_3 EXCEPT !.Standards_Compliance = NoColumn],
       [MOCK_ROW_4 EXCEPT !.Standards_Compliance = NoColumn, !.BIS_Certified = FALSE] >>

ScoringCatalogs == {MOCK_DATABASE, WORKBOOK_DATABASE}

MatchPool ==
    {Match("PROD_001", "Power Cables", 10000, 30),
     Match("PROD_004", "Power Cables", 7500, 25),
     Match("PROD_003", "Control Cables", 6500, 45),
     Match("X0", "Power Cables", 7300, 31),
     Match("", "Control Cables", 4500, 0),
     NoneMatch}

\* six matches, one more than score_technical_match weighs
SixMatches ==
    <<Match("PROD_001", "Power Cables", 10000, 30),
      Match("PROD_003", "Control Cables", 8800, 45),
      Match("PROD_004", "Power Cables", 7500, 25),
      Match("X1", "Power Cables", 7500, 28),
      Match("X2", "Fittings", 4500, 120),
      Match("X3", "Fittings", 3000, 10)>>

RECURSIVE ListsUpTo(_, _)
ListsUpTo(pool, n) ==
    IF n = 0 THEN {<<>>}
    ELSE LET shorter == ListsUpTo(pool, n - 1)
         IN  shorter \cup {Append(t, r) : t \in shorter, r \in pool}

MatchLists == ListsUpTo(MatchPool, MaxMatches) \cup {SixMatches}

\* estimated_price, in INR
Prices == {0 - 1, 0, 16000, 100000, 1500000, 3000000}

Deadlines == {NoDeadline, BadDeadline, DateIn(0 - 3), DateIn(10), DateIn(40), DateIn(90)}

ScorerIdle == [pc |-> "idle"]

InitScorer ==
    \E ms \in MatchLists, p \in Prices, d \in Deadlines, db \in ScoringCatalogs :
        scorer = [pc |-> "start", matches |-> ms, estimated_price |-> p,
                  rfp_deadline |-> d, product_db |-> db]

\* one call of calculate_final_score
CalculateFinalScore ==
    /\ scorer.pc = "start"
    /\ scorer' = [scorer EXCEPT !.pc = "done"]
                    @@ [result |-> calculate_final_score(scorer.matches,
                                                         scorer.estimated_price,
                                                         scorer.rfp_deadline,
                                                         scorer.product_db)]
    /\ UNCHANGED <<weights, normalizer, matcher, selector, pricer, pipeline, reader, replay, helper>>

(***************************************************************************)
(* sales_agent: the tender selector.                                       *)
(***************************************************************************)
SALES_KEYWORDS ==
    << <<"p","o","w","e","r">>,
       <<"c","a","b","l","e">>,
       <<"e","l","e","c","t","r","i","c","a","l">>,
       <<"s","u","p","p","l","y">>,
       <<"i","n","f","r","a","s","t","r","u","c","t","u","r","e">>,
       <<"m","e","t","r","o">>,
       <<"s","u","b","s","t","a","t","i","o","n">>,
       <<"t","r","a","n","s","f","o","r","m","e","r">>,
       <<"h","v","a","c">>,
       <<"s","w","i","t","c","h","g","e","a","r">>,
       <<"t","r","a","n","s","m","i","s","s","i","o","n">>,
       <<"d","i","s","t","r","i","b","u","t","i","o","n">> >>

\* the high-priority category terms of select_best_rfp.score
CATEGORY_TERMS ==
    << <<"p","o","w","e","r">>,
       <<"e","l","e","c","t","r","i","c","a","l">>,
       <<"c","a","b","l","e">>,
       <<"i","n","f","r","a","s","t","r","u","c","t","u","r","e">> >>

\* sales_agent.parse_date on a deadline: the date it parses to, as the days
\* (due_date - datetime.now()).days it is away, or None
parse_date(date_str) ==
    IF date_str.kind = "date" THEN [parsed |-> TRUE, days |-> date_str.days]
    ELSE [parsed |-> FALSE, days |-> 0]

\* select_best_rfp.score, keyword relevance: min(keyword_count * 5, 50)
keyword_score(rfp) ==
    LET text == lower(JoinSpace(<<rfp.projectName, rfp.project_name,
                                  rfp.project_overview, rfp.scope_of_supply,
                                  rfp.category>>))
        keyword_count ==
            Cardinality({k \in DOMAIN SALES_KEYWORDS : In(SALES_KEYWORDS[k], text)})
    IN  Min(keyword_count * 500, 5000)

\* the urgency term with a deadline that does not parse counted as due today
urgency_score_undated_due(rfp) ==
    LET due_date == parse_date(rfp.submission_deadline)
    IN  Max(0, 3000 - 33 * due_date.days)

\* select_best_rfp.score, deadline urgency: max(0, 30 - days_left * 0.33) when
\* the deadline parses, nothing otherwise
urgency_score(rfp) ==
    LET due_date == parse_date(rfp.submission_deadline)
    IN  IF due_date.parsed THEN Max(0, 3000 - 33 * due_date.days) ELSE 0

\* select_best_rfp.score, category bonus
category_bonus(rfp) ==
    LET category == lower(rfp.category)
    IN  IF \E t \in DOMAIN CATEGORY_TERMS : In(CATEGORY_TERMS[t], category)
        THEN 2000 ELSE 0

\* sales_agent.select_best_rfp.score, in hundredths
score(rfp) == keyword_score(rfp) + urgency_score(rfp) + category_bonus(rfp)

\* {**rfp, "sales_score": rfp_score}
Scored(rfp) == rfp @@ [sales_score |-> score(rfp)]

\* for rfp in rfps: scored.append({**rfp, "sales_score": score(rfp)})
RECURSIVE ScoreAll(_)
ScoreAll(rfps) ==
    IF rfps = <<>> THEN <<>>
    ELSE <<Scored(Head(rfps))>> \o ScoreAll(Tail(rfps))

\* a descending sort that is not stable: equal scores come out in the reverse
\* of their input order
SortScoredTiesReversed(scored) ==
    LET keyed == [i \in DOMAIN scored |->
                     [key |-> scored[Len(scored) + 1 - i].sales_score,
                      item |-> scored[Len(scored) + 1 - i]]]
        sorted == SortDesc(keyed)
    IN  [i \in DOMAIN sorted |-> sorted[i].item]

\* scored.sort(key = sales_score, reverse = True)
SortScored(scored) ==
    LET keyed == [i \in DOMAIN scored |->
                     [key |-> scored[i].sales_score, item |-> scored[i]]]
        sorted == SortDesc(keyed)
    IN  [i \in DOMAIN sorted |-> sorted[i].item]

\* the list select_best_rfp has scored: empty when it returns at validation
ScoredList(scraped_data) ==
    IF scraped_data.none THEN <<>>
    ELSE IF scraped_data.error # "" THEN <<>>
    ELSE ScoreAll(scraped_data.data)

\* select_best_rfp without the check of an empty tender list: scored[0] of an
\* empty list raises IndexError
select_best_rfp_unchecked(scraped_data) ==
    IF scraped_data.none THEN [status |-> "error", error |-> "no_input_data"]
    ELSE IF scraped_data.error # "" THEN [status |-> "error", error |-> scraped_data.error]
    ELSE IF scraped_data.data = <<>> THEN [status |-> "raised", exception |-> "IndexError"]
    ELSE [status |-> "selected", best |-> SortScored(ScoredList(scraped_data))[1]]

\* Scraper output: none is None or {}; error "" is no error key.
\* sales_agent.select_best_rfp
select_best_rfp(scraped_data) ==
    IF scraped_data.none THEN [status |-> "error", error |-> "no_input_data"]
    ELSE IF scraped_data.error # "" THEN [status |-> "error", error |-> scraped_data.error]
    ELSE IF scraped_data.data = <<>> THEN [status |-> "error", error |-> "no_rfps_found"]
    ELSE [status |-> "selected", best |-> SortScored(ScoredList(scraped_data))[1]]

(***************************************************************************)
(* Inputs of the selector.                                                 *)
(***************************************************************************)
TENDER_METRO_5 ==
    [rfp_reference |-> "RFP-1",
     projectName |-> <<"M","e","t","r","o"," ","p","o","w","e","r"," ","c","a","b","l","e"," ","s","u","p","p","l","y">>,
     project_name |-> <<"M","e","t","r","o"," ","p","o","w","e","r"," ","c","a","b","l","e"," ","s","u","p","p","l","y">>,
     project_overview |-> <<>>,
     scope_of_supply |-> <<>>,
     category |-> <<"P","o","w","e","r">>,
     submission_deadline |-> DateIn(5)]

\* the same text, due in 60 days
TENDER_METRO_60 ==
    [rfp_reference |-> "RFP-2",
     projectName |-> <<"M","e","t","r","o"," ","p","o","w","e","r"," ","c","a","b","l","e"," ","s","u","p","p","l","y">>,
     project_name |-> <<"M","e","t","r","o"," ","p","o","w","e","r"," ","c","a","b","l","e"," ","s","u","p","p","l","y">>,
     project_overview |-> <<>>,
     scope_of_supply |-> <<>>,
     category |-> <<"P","o","w","e","r">>,
     submission_deadline |-> DateIn(60)]

\* the same text and deadline as TENDER_METRO_5 under another reference
TENDER_METRO_5B ==
    [rfp_reference |-> "RFP-3",
     projectName |-> <<"M","e","t","r","o"," ","p","o","w","e","r"," ","c","a","b","l","e"," ","s","u","p","p","l","y">>,
     project_name |-> <<"M","e","t","r","o"," ","p","o","w","e","r"," ","c","a","b","l","e"," ","s","u","p","p","l","y">>,
     project_overview |-> <<>>,
     scope_of_supply |-> <<>>,
     category |-> <<"P","o","w","e","r">>,
     submission_deadline |-> DateIn(5)]

TENDER_FURNITURE ==
    [rfp_reference |-> "RFP-4",
     projectName |-> <<"O","f","f","i","c","e"," ","f","u","r","n","i","t","u","r","e">>,
     project_name |-> <<"O","f","f","i","c","e"," ","f","u","r","n","i","t","u","r","e">>,
     project_overview |-> <<>>,
     scope_of_supply |-> <<>>,
     category |-> <<"F","u","r","n","i","t","u","r","e">>,
     submission_deadline |-> NoDeadline]

TENDER_SUBSTATION ==
    [rfp_reference |-> "RFP-5",
     projectName |-> <<"S","u","b","s","t","a","t","i","o","n"," ","t","r","a","n","s","f","o","r","m","e","r">>,
     project_name |-> <<"S","u","b","s","t","a","t","i","o","n"," ","t","r","a","n","s","f","o","r","m","e","r">>,
     project_overview |-> <<>>,
     scope_of_supply |-> <<>>,
     category |-> <<"E","l","e","c","t","r","i","c","a","l"," ","I","n","f","r","a","s","t","r","u","c","t","u","r","e">>,
     submission_deadline |-> BadDeadline]

\* due 10 days ago
TENDER_OVERDUE ==
    [rfp_reference |-> "RFP-6",
     projectName |-> <<"C","a","b","l","e">>,
     project_name |-> <<"C","a","b","l","e">>,
     project_overview |-> <<>>,
     scope_of_supply |-> <<>>,
     category |-> <<"C","a","b","l","e">>,
     submission_deadline |-> DateIn(0 - 10)]

\* "Cable tray", due in 120 days
TENDER_FAR ==
    [rfp_reference |-> "RFP-7",
     projectName |-> <<"C","a","b","l","e"," ","t","r","a","y">>,
     project_name |-> <<"C","a","b","l","e"," ","t","r","a","y">>,
     project_overview |-> <<>>,
     scope_of_supply |-> <<>>,
     category |-> <<"T","r","a","y","s">>,
     submission_deadline |-> DateIn(120)]

TenderPool ==
    {TENDER_METRO_5, TENDER_METRO_60, TENDER_METRO_5B, TENDER_FURNITURE,
     TENDER_SUBSTATION, TENDER_OVERDUE}

Scraped(rfps) == [none |-> FALSE, error |-> "", data |-> rfps]

ScrapedInputs ==
    {Scraped(rfps) : rfps \in ListsUpTo(TenderPool, MaxTenders)}
      \cup {Scraped(<<TENDER_FAR, TENDER_SUBSTATION>>),
            Scraped(<<TENDER_SUBSTATION, TENDER_FAR>>),
            Scraped(<<TENDER_FAR, TENDER_FURNITURE>>)}
      \cup {[none |-> TRUE, error |-> "", data |-> <<>>],
            [none |-> FALSE, error |-> "API timeout", data |-> <<>>]}

SelectorIdle == [pc |-> "idle"]

InitSelector ==
    \E sd \in ScrapedInputs : selector = [pc |-> "start", scraped_data |-> sd]

\* one call of select_best_rfp
SelectBestRfp ==
    /\ selector.pc = "start"
    /\ selector' = [pc |-> "done", scraped_data |-> selector.scraped_data,
                    scored |-> ScoredList(selector.scraped_data),
                    result |-> select_best_rfp(selector.scraped_data)]
    /\ UNCHANGED <<weights, normalizer, matcher, scorer, pricer, pipeline, reader, replay, helper>>

(***************************************************************************)
(* pricing_agent: tender pricing, test costs and the consolidated table.   *)
(* Costs are in INR, quoted prices in paise, margins in 1/1000 of a        *)
(* percent (reported in 1/100 of a percent).                               *)
(***************************************************************************)
FALLBACK_ESTIMATE == 50000

\* get_product_pricing with no estimate for a product that is not found
get_product_pricing_no_fallback(product_id, product_db) ==
    LET product_row == RowsOf(product_db, product_id)
    IN  IF product_db = <<>> \/ product_row = <<>>
        THEN [found |-> FALSE, unit_price |-> 0, min_order_qty |-> 0,
              fallback_estimate |-> 0]
        ELSE [found |-> TRUE, product_id |-> product_id,
              unit_price |-> product_row[1].Unit_Price_INR_per_meter,
              min_order_qty |-> product_row[1].Min_Order_Qty_Meters,
              fallback_estimate |-> 0]

\* pricing_agent.get_product_pricing
get_product_pricing(product_id, product_db) ==
    LET product_row == RowsOf(product_db, product_id)
    IN  IF product_db = <<>> \/ product_row = <<>>
        THEN [found |-> FALSE, unit_price |-> 0, min_order_qty |-> 0,
              fallback_estimate |-> FALLBACK_ESTIMATE]
        ELSE [found |-> TRUE, product_id |-> product_id,
              unit_price |-> product_row[1].Unit_Price_INR_per_meter,
              min_order_qty |-> product_row[1].Min_Order_Qty_Meters,
              fallback_estimate |-> 0]

\* pricing_agent.calculate_product_cost
calculate_product_cost(unit_price, min_order_qty, quantity_multiplier) ==
    unit_price * (min_order_qty * quantity_multiplier)

\* the margin of apply_pricing_margin before the random variation
BaseMargin(base_cost) ==
    IF base_cost > 500000 THEN 15000
    ELSE IF base_cost > 200000 THEN 20000
    ELSE 25000

\* base_cost * (1 + final_margin), rounded to paise
QuotedPrice(base_cost, final_margin) ==
    base_cost * 100 + (base_cost \div 1000) * final_margin
      + RoundDiv((base_cost % 1000) * final_margin, 1000)

\* pricing_agent.apply_pricing_margin; margin_variation is the value that
\* random.uniform(-0.05, 0.05) returns
apply_pricing_margin(base_cost, margin_variation) ==
    IF base_cost = 0
    THEN [base_cost |-> 0, margin_percentage |-> 0, quoted_price |-> 0]
    ELSE LET final_margin ==
                 Max(10000, Min(BaseMargin(base_cost) + margin_variation, 35000))
         IN  [base_cost |-> base_cost,
              margin_percentage |-> RoundDiv(final_margin, 10),
              quoted_price |-> QuotedPrice(base_cost, final_margin)]

\* A recommendation: none is None or {}; an absent key is "".
\* match.get("product_id") or match.get("sku") or match.get("Product_ID")
IdOf(match) ==
    IF match.product_id # "" THEN match.product_id
    ELSE IF match.sku # "" THEN match.sku
    ELSE match.Product_ID

\* the line calculate_tender_pricing appends for one recommendation
CostLine(product_id, pricing_info) ==
    IF ~pricing_info.found
    THEN [product_id |-> product_id, status |-> "not_found",
          cost |-> pricing_info.fallback_estimate]
    ELSE [product_id |-> product_id, status |-> "calculated",
          unit_price |-> pricing_info.unit_price,
          min_order_qty |-> pricing_info.min_order_qty,
          product_cost |-> calculate_product_cost(pricing_info.unit_price,
                                                  pricing_info.min_order_qty, 1)]

\* what a line adds to tender_total
LineCost(line) == IF line.status = "not_found" THEN line.cost ELSE line.product_cost

\* the loop of calculate_tender_pricing: the lines of product_costs
RECURSIVE ProductCosts(_, _)
ProductCosts(oem_recommendations, product_db) ==
    IF oem_recommendations = <<>> THEN <<>>
    ELSE LET match == Head(oem_recommendations)
             rest == ProductCosts(Tail(oem_recommendations), product_db)
         IN  IF match.none \/ IdOf(match) = "" THEN rest
             ELSE <<CostLine(IdOf(match),
                             get_product_pricing(IdOf(match), product_db))>> \o rest

RECURSIVE TenderTotal(_)
TenderTotal(product_costs) ==
    IF product_costs = <<>> THEN 0
    ELSE LineCost(Head(product_costs)) + TenderTotal(Tail(product_costs))

\* whether a call of calculate_tender_pricing reaches apply_pricing_margin
MarginApplied(oem_recommendations, product_db) ==
    /\ oem_recommendations # <<>>
    /\ TenderTotal(ProductCosts(oem_recommendations, product_db)) # 0

\* pricing_agent.calculate_tender_pricing
calculate_tender_pricing(oem_recommendations, product_db, margin_variation) ==
    IF oem_recommendations = <<>>
    THEN [product_costs |-> <<>>, base_total |-> 0, margin_percentage |-> 0,
          final_price |-> 0, error |-> "No product recommendations provided"]
    ELSE LET product_costs == ProductCosts(oem_recommendations, product_db)
             tender_total == TenderTotal(product_costs)
             margin_info == apply_pricing_margin(tender_total, margin_variation)
         IN  IF tender_total = 0
             THEN [product_costs |-> product_costs, base_total |-> 0,
                   margin_percentage |-> 0, final_price |-> 0,
                   error |-> "Could not calculate any product costs"]
             ELSE [product_costs |-> product_costs,
                   base_total |-> margin_info.base_cost,
                   margin_percentage |-> margin_info.margin_percentage,
                   final_price |-> margin_info.quoted_price,
                   products_analyzed |-> Len(product_costs)]

\* lookup_test_price.TEST_PRICE_MAP, in the order of calculate_test_costs.all_tests
TEST_PRICE_MAP ==
    << <<<<"h","i","g","h"," ","v","o","l","t","a","g","e"," ","t","e","s","t">>, 20000>>,
       <<<<"i","n","s","u","l","a","t","i","o","n"," ","r","e","s","i","s","t","a","n","c","e"," ","t","e","s","t">>, 10000>>,
       <<<<"f","i","r","e"," ","r","e","s","i","s","t","a","n","c","e"," ","t","e","s","t">>, 8000>>,
       <<<<"t","h","e","r","m","a","l"," ","c","y","c","l","i","n","g">>, 15000>>,
       <<<<"v","i","b","r","a","t","i","o","n"," ","t","e","s","t">>, 12000>>,
       <<<<"e","l","e","c","t","r","i","c","a","l"," ","a","c","c","e","p","t","a","n","c","e">>, 18000>>,
       <<<<"i","p"," ","r","a","t","i","n","g"," ","t","e","s","t">>, 9000>>,
       <<<<"r","o","u","t","i","n","e"," ","t","e","s","t">>, 5000>>,
       <<<<"t","y","p","e"," ","t","e","s","t">>, 25000>> >>

\* pricing_agent.lookup_test_price
lookup_test_price(test_name) ==
    LET hits == {i \in DOMAIN TEST_PRICE_MAP : TEST_PRICE_MAP[i][1] = lower(test_name)}
    IN  IF hits = {} THEN 0 ELSE TEST_PRICE_MAP[CHOOSE i \in hits : TRUE][2]

\* the loop of calculate_test_costs over all_tests from position i
RECURSIVE TestCostsFrom(_, _)
TestCostsFrom(i, tests_text) ==
    IF i > Len(TEST_PRICE_MAP) THEN <<>>
    ELSE LET test_name == TEST_PRICE_MAP[i][1]
             rest == TestCostsFrom(i + 1, tests_text)
         IN  IF In(test_name, tests_text)
             THEN <<[test |-> test_name, cost |-> lookup_test_price(test_name)]>> \o rest
             ELSE rest

RECURSIVE TotalTestCost(_)
TotalTestCost(test_costs) ==
    IF test_costs = <<>> THEN 0
    ELSE Head(test_costs).cost + TotalTestCost(Tail(test_costs))

\* A pricing brief: none is None or {}.
\* pricing_agent.calculate_test_costs
calculate_test_costs(pricing_brief) ==
    IF pricing_brief.none
    THEN [test_costs |-> <<>>, total_test_cost |-> 0, tests_identified |-> 0]
    ELSE LET tests_text == lower(pricing_brief.tests_and_acceptance)
             test_costs == TestCostsFrom(1, tests_text)
         IN  [test_costs |-> test_costs,
              total_test_cost |-> TotalTestCost(test_costs),
              tests_identified |-> Len(test_costs)]

\* the consolidation with a grand total that leaves the test costs out
ConsolidateMaterialOnly(tender_pricing, test_costs_info) ==
    [material_costs |->
         [products |-> tender_pricing.product_costs,
          base_total |-> tender_pricing.base_total,
          margin_percentage |-> tender_pricing.margin_percentage,
          material_total |-> tender_pricing.final_price],
     testing_costs |->
         [tests |-> test_costs_info.test_costs,
          testing_total |-> test_costs_info.total_test_cost * 100],
     summary |->
         [material_cost |-> tender_pricing.final_price,
          testing_cost |-> test_costs_info.total_test_cost * 100,
          grand_total |-> tender_pricing.final_price,
          products_count |-> IF "products_analyzed" \in DOMAIN tender_pricing
                             THEN tender_pricing.products_analyzed ELSE 0,
          tests_count |-> test_costs_info.tests_identified]]

\* pricing_agent.consolidate_final_pricing; amounts in paise
consolidate_final_pricing(tender_pricing, test_costs_info) ==
    [material_costs |->
         [products |-> tender_pricing.product_costs,
          base_total |-> tender_pricing.base_total,
          margin_percentage |-> tender_pricing.margin_percentage,
          material_total |-> tender_pricing.final_price],
     testing_costs |->
         [tests |-> test_costs_info.test_costs,
          testing_total |-> test_costs_info.total_test_cost * 100],
     summary |->
         [material_cost |-> tender_pricing.final_price,
          testing_cost |-> test_costs_info.total_test_cost * 100,
          grand_total |-> tender_pricing.final_price
                            + test_costs_info.total_test_cost * 100,
          products_count |-> IF "products_analyzed" \in DOMAIN tender_pricing
                             THEN tender_pricing.products_analyzed ELSE 0,
          tests_count |-> test_costs_info.tests_identified]]

(***************************************************************************)
(* Inputs of the pricer.                                                   *)
(***************************************************************************)
\* a workbook with a product priced at exactly 200,000 and one priced at 0
PRICING_WORKBOOK ==
    << [MOCK_ROW_1 EXCEPT !.Product_ID = "W_200K",
                          !.Unit_Price_INR_per_meter = 250,
                          !.Min_Order_Qty_Meters = 800],
       [MOCK_ROW_1 EXCEPT !.Product_ID = "W_ZERO",
                          !.Unit_Price_INR_per_meter = 0] >>

\* the built-in table, a workbook, and a workbook with no rows
PricingCatalogs == {MOCK_DATABASE, PRICING_WORKBOOK, <<>>}

Recommendation(product_id, sku) ==
    [none |-> FALSE, product_id |-> product_id, sku |-> sku, Product_ID |-> ""]

NoneRecommendation == [none |-> TRUE, product_id |-> "", sku |-> "", Product_ID |-> ""]

RecommendationPool ==
    {Recommendation("PROD_001", "PROD_001"),
     Recommendation("PROD_003", "PROD_003"),
     Recommendation("", "PROD_004"),
     Recommendation("X9", "X9"),
     Recommendation("W_200K", "W_200K"),
     Recommendation("W_ZERO", "W_ZERO"),
     Recommendation("", ""),
     NoneRecommendation}

\* values of random.uniform(-0.05, 0.05)
MarginVariations == {0 - 5000, 0 - 1234, 0, 2468, 5000}

\* "Type Test"
TestsTypeTest ==
    <<"T","y","p","e"," ","T","e","s","t">>

\* "High  Voltage Test"
TestsDoubleSpace ==
    <<"H","i","g","h"," "," ","V","o","l","t","a","g","e"," ","T","e","s","t">>

\* "Routine test, type test and high voltage test"
TestsThree ==
    <<"R","o","u","t","i","n","e"," ","t","e","s","t",","," ","t","y","p","e"," ","t","e","s","t"," ","a","n","d"," ","h","i","g","h"," ","v","o","l","t","a","g","e"," ","t","e","s","t">>

\* "Routine-test"
TestsHyphen ==
    <<"R","o","u","t","i","n","e","-","t","e","s","t">>

\* "visual inspection"
TestsNone ==
    <<"v","i","s","u","a","l"," ","i","n","s","p","e","c","t","i","o","n">>

\* "type test; Type Test"
TestsTwice ==
    <<"t","y","p","e"," ","t","e","s","t",";"," ","T","y","p","e"," ","T","e","s","t">>

NoPricingBrief == [none |-> TRUE, tests_and_acceptance |-> <<>>]

PricingBrief(tests) == [none |-> FALSE, tests_and_acceptance |-> tests]

PricingBriefs ==
    {NoPricingBrief, PricingBrief(<<>>), PricingBrief(TestsTypeTest),
     PricingBrief(TestsDoubleSpace), PricingBrief(TestsThree),
     PricingBrief(TestsHyphen), PricingBrief(TestsNone), PricingBrief(TestsTwice)}

PricerIdle == [pc |-> "idle"]

InitPricer ==
    \E recs \in ListsUpTo(RecommendationPool, MaxRecommendations),
       db \in PricingCatalogs, brief \in PricingBriefs :
        pricer = [pc |-> "start", oem_recommendations |-> recs, product_db |-> db,
                  pricing_brief |-> brief]

\* one call of calculate_tender_pricing; draws holds the values drawn from
\* random.uniform during the call
CalculateTenderPricing ==
    /\ pricer.pc = "start"
    /\ \E v \in MarginVariations :
          /\ MarginApplied(pricer.oem_recommendations, pricer.product_db) \/ v = 0
          /\ pricer' =
                [pricer EXCEPT !.pc = "priced"]
                  @@ [tender_pricing |->
                          calculate_tender_pricing(pricer.oem_recommendations,
                                                   pricer.product_db, v),
                      draws |-> IF MarginApplied(pricer.oem_recommendations,
                                                 pricer.product_db)
                                THEN <<v>> ELSE <<>>]
    /\ UNCHANGED <<weights, normalizer, matcher, scorer, selector, pipeline, reader, replay, helper>>

\* one call of calculate_test_costs
CalculateTestCosts ==
    /\ pricer.pc = "priced"
    /\ pricer' = [pricer EXCEPT !.pc = "tested"]
                    @@ [test_costs_info |-> calculate_test_costs(pricer.pricing_brief)]
    /\ UNCHANGED <<weights, normalizer, matcher, scorer, selector, pipeline, reader, replay, helper>>

\* one call of consolidate_final_pricing
ConsolidateFinalPricing ==
    /\ pricer.pc = "tested"
    /\ pricer' = [pricer EXCEPT !.pc = "done"]
                    @@ [price_table |->
                            consolidate_final_pricing(pricer.tender_pricing,
                                                      pricer.test_costs_info)]
    /\ UNCHANGED <<weights, normalizer, matcher, scorer, selector, pipeline, reader, replay, helper>>

(***************************************************************************)
(* The agent pipeline.                                                     *)
(***************************************************************************)
\* A key of the session state: absent, or written during the run for a tender.
Absent == [present |-> FALSE]

Written(tender, value) == [present |-> TRUE, tender |-> tender, value |-> value]

\* the tender the sales agent selects in this run
PipelineTenders == {"RFP-1", "RFP-2"}

\* what the session holds under oem_recommendations when the run starts:
\* nothing, or the list an earlier run of the same session left there
EarlierRecommendations ==
    {Absent, Written("RFP-0", <<Recommendation("PROD_004", "PROD_004")>>)}

\* the lists the technical agent may come to recommend
MatchedLists ==
    {<<>>,
     <<Recommendation("PROD_001", "PROD_001")>>,
     <<Recommendation("PROD_001", "PROD_001"), Recommendation("X9", "X9")>>}

\* an agent's instruction takes {key} from the session state
Read(agent, key) ==
    [agent |-> agent, key |-> key, value |-> pipeline.session[key]]

PipelineIdle == [pc |-> "idle"]

\* root_agent before its first sub-agent runs
InitPipeline ==
    \E t \in PipelineTenders, earlier \in EarlierRecommendations :
        pipeline = [pc |-> "sales", tender |-> t,
                    session |-> [best_sales_rfp |-> Absent,
                                 master_output |-> Absent,
                                 pricing_brief |-> Absent,
                                 oem_recommendations |-> earlier,
                                 price_table |-> Absent,
                                 final_rfp_response |-> Absent],
                    technical |-> "waiting", pricing |-> "waiting",
                    pricing_input |-> Absent, reads |-> <<>>]

\* step 1 of root_agent: sales_agent, output_key best_sales_rfp
RunSalesAgent ==
    /\ pipeline.pc = "sales"
    /\ pipeline' = [pipeline EXCEPT
           !.pc = "master",
           !.session.best_sales_rfp = Written(pipeline.tender, pipeline.tender)]
    /\ UNCHANGED <<weights, normalizer, matcher, scorer, selector, pricer, reader, replay, helper>>

\* step 2 of root_agent: master_agent, which reads {best_sales_rfp},
\* output_key master_output; step 3, parallel_analysis, then starts both of
\* its sub-agents
RunMasterAgent ==
    /\ pipeline.pc = "master"
    /\ pipeline' = [pipeline EXCEPT
           !.pc = "parallel",
           !.reads = @ \o <<Read("MasterAgent", "best_sales_rfp")>>,
           !.session.master_output = Written(pipeline.tender, "briefs"),
           !.technical = "running",
           !.pricing = "running"]
    /\ UNCHANGED <<weights, normalizer, matcher, scorer, selector, pricer, reader, replay, helper>>

\* technical_agent, which reads {master_output}, finishes: output_key
\* oem_recommendations
TechnicalAgentWrites ==
    /\ pipeline.pc = "parallel"
    /\ pipeline.technical = "running"
    /\ \E matches \in MatchedLists :
          pipeline' = [pipeline EXCEPT
              !.technical = "done",
              !.reads = @ \o <<Read("TechnicalAgent", "master_output")>>,
              !.session.oem_recommendations = Written(pipeline.tender, matches)]
    /\ UNCHANGED <<weights, normalizer, matcher, scorer, selector, pricer, reader, replay, helper>>

\* pricing_agent takes {oem_recommendations} and {pricing_brief} from the
\* session state
PricingAgentReads ==
    /\ pipeline.pc = "parallel"
    /\ pipeline.pricing = "running"
    /\ pipeline' = [pipeline EXCEPT
           !.pricing = "read",
           !.reads = @ \o <<Read("PricingAgent", "oem_recommendations"),
                             Read("PricingAgent", "pricing_brief")>>,
           !.pricing_input = pipeline.session.oem_recommendations]
    /\ UNCHANGED <<weights, normalizer, matcher, scorer, selector, pricer, reader, replay, helper>>

\* the list pricing_agent passes to calculate_tender_pricing
PricingList(pricing_input) ==
    IF pricing_input.present THEN pricing_input.value ELSE <<>>

\* pricing_agent finishes: output_key price_table
PricingAgentWrites ==
    /\ pipeline.pc = "parallel"
    /\ pipeline.pricing = "read"
    /\ \E v \in MarginVariations :
          /\ MarginApplied(PricingList(pipeline.pricing_input), MOCK_DATABASE) \/ v = 0
          /\ pipeline' = [pipeline EXCEPT
                 !.pricing = "done",
                 !.session.price_table =
                     Written(pipeline.tender,
                             calculate_tender_pricing(
                                 PricingList(pipeline.pricing_input),
                                 MOCK_DATABASE, v))]
    /\ UNCHANGED <<weights, normalizer, matcher, scorer, selector, pricer, reader, replay, helper>>

\* step 4 of root_agent: consolidator_agent, once both sub-agents of
\* parallel_analysis have finished; it reads {best_sales_rfp},
\* {oem_recommendations} and {price_table}
RunConsolidator ==
    /\ pipeline.pc = "parallel"
    /\ pipeline.technical = "done"
    /\ pipeline.pricing = "done"
    /\ pipeline' = [pipeline EXCEPT
           !.pc = "done",
           !.reads = @ \o <<Read("ConsolidatorAgent", "best_sales_rfp"),
                             Read("ConsolidatorAgent", "oem_recommendations"),
                             Read("ConsolidatorAgent", "price_table")>>,
           !.session.final_rfp_response = Written(pipeline.tender, "response")]
    /\ UNCHANGED <<weights, normalizer, matcher, scorer, selector, pricer, reader, replay, helper>>

(***************************************************************************)
(* The catalog file and the runs that load it.                             *)
(***************************************************************************)
\* what is on disk at PRODUCT_DATABASE_PATH: no file, or a workbook
NoFile == [exists |-> FALSE, rows |-> <<>>]

Workbook(rows) == [exists |-> TRUE, rows |-> rows]

\* load_product_database: the workbook's rows as they are on disk at the time
\* of the call, the built-in table when there is no file
load_product_database(file) ==
    IF ~file.exists THEN MOCK_DATABASE ELSE file.rows

\* the built-in products at revised prices
REPRICED_WORKBOOK ==
    << [MOCK_ROW_1 EXCEPT !.Unit_Price_INR_per_meter = 1500],
       [MOCK_ROW_4 EXCEPT !.Min_Order_Qty_Meters = 500] >>

CatalogFiles == {NoFile, Workbook(PRICING_WORKBOOK), Workbook(REPRICED_WORKBOOK)}

\* the scorers of one calculate_final_score call that load the catalog, in
\* the order they are called
ScoringLoads(matches, estimated_price) ==
    (IF estimated_price <= 0 \/ matches = <<>>
     THEN <<>> ELSE <<"score_price_competitiveness">>)
    \o (IF matches = <<>> THEN <<>>
        ELSE <<"score_compliance", "score_risk_assessment">>)

\* the get_product_pricing calls of one calculate_tender_pricing call: one for
\* each recommendation that is not None and has an id
PricingLoads(oem_recommendations) ==
    LET looked_up == SelectSeq(oem_recommendations,
                               LAMBDA m : ~m.none /\ IdOf(m) # "")
    IN  [i \in DOMAIN looked_up |-> "get_product_pricing"]

ReaderMatches ==
    {<<>>,
     <<Match("PROD_001", "Power Cables", 10000, 30)>>,
     <<Match("PROD_001", "Power Cables", 10000, 30), NoneMatch>>}

ReaderPrices == {0, 1500000}

ReaderRecommendations ==
    ListsUpTo({Recommendation("PROD_001", "PROD_001"),
               Recommendation("", "PROD_004"),
               NoneRecommendation}, MaxRecommendations)

ReaderIdle == [pc |-> "idle"]

InitReader ==
    \E file \in CatalogFiles :
        \/ \E ms \in ReaderMatches, p \in ReaderPrices :
               reader = [pc |-> "running", run |-> "calculate_final_score",
                         file |-> file, pending |-> ScoringLoads(ms, p),
                         loads |-> <<>>]
        \/ \E recs \in ReaderRecommendations :
               reader = [pc |-> "running", run |-> "calculate_tender_pricing",
                         file |-> file, pending |-> PricingLoads(recs),
                         loads |-> <<>>]

\* the next scorer of the running calculate_final_score call loads the catalog
ScorerLoadsCatalog ==
    /\ reader.pc = "running"
    /\ reader.run = "calculate_final_score"
    /\ reader.pending # <<>>
    /\ reader' = [reader EXCEPT
           !.pending = Tail(@),
           !.loads = Append(@, [caller |-> Head(reader.pending),
                                product_db |-> load_product_database(reader.file)])]
    /\ UNCHANGED <<weights, normalizer, matcher, scorer, selector, pricer, pipeline, replay, helper>>

\* the next get_product_pricing call of the running calculate_tender_pricing
\* call loads the catalog
PricerLoadsCatalog ==
    /\ reader.pc = "running"
    /\ reader.run = "calculate_tender_pricing"
    /\ reader.pending # <<>>
    /\ reader' = [reader EXCEPT
           !.pending = Tail(@),
           !.loads = Append(@, [caller |-> Head(reader.pending),
                                product_db |-> load_product_database(reader.file)])]
    /\ UNCHANGED <<weights, normalizer, matcher, scorer, selector, pricer, pipeline, replay, helper>>

\* the workbook is replaced, added or removed on disk while a run is under way
ReplaceCatalog ==
    /\ reader.pc = "running"
    /\ \E file \in CatalogFiles \ {reader.file} :
           reader' = [reader EXCEPT !.file = file]
    /\ UNCHANGED <<weights, normalizer, matcher, scorer, selector, pricer, pipeline, replay, helper>>

\* the run returns once its last lookup is done
RunReturns ==
    /\ reader.pc = "running"
    /\ reader.pending = <<>>
    /\ reader' = [reader EXCEPT !.pc = "done"]
    /\ UNCHANGED <<weights, normalizer, matcher, scorer, selector, pricer, pipeline, replay, helper>>

(***************************************************************************)
(* Runs repeated on the same inputs.  The clock counts the days gone by    *)
(* since the first run; a deadline is a fixed calendar date, written as    *)
(* the days it is away when the clock is 0.  The random generator is the   *)
(* one generator of the random module, shared by every pricing run of the  *)
(* process: stream is what random.uniform(-0.05, 0.05) returns, call after *)
(* call, once random.seed has been given the seed.                         *)
(***************************************************************************)
\* (deadline - datetime.now()).days of a deadline when the clock is at `clock`
AtClock(deadline, clock) ==
    IF deadline.kind = "date" THEN DateIn(deadline.days - clock) ELSE deadline

\* the tender list as select_best_rfp sees it at `clock`
TendersAt(rfps, clock) ==
    [i \in DOMAIN rfps |->
        [rfps[i] EXCEPT !.submission_deadline = AtClock(@, clock)]]

\* the result of select_best_rfp at `clock`, the deadline of the selected
\* tender written as a calendar date again
SelectAt(rfps, clock) ==
    LET result == select_best_rfp(Scraped(TendersAt(rfps, clock)))
    IN  IF result.status = "selected"
        THEN [result EXCEPT !.best.submission_deadline = AtClock(@, 0 - clock)]
        ELSE result

ReplayIdle == [pc |-> "idle"]

ReplayTenders ==
    {<<TENDER_METRO_5>>, <<TENDER_FURNITURE, TENDER_METRO_60>>,
     <<TENDER_SUBSTATION>>, <<TENDER_METRO_60, TENDER_OVERDUE>>}

ReplayBriefs == {Brief(<<>>, TextScenario), Brief(TextFullMatch, <<>>)}

ReplayMatches ==
    {<<Match("PROD_001", "Power Cables", 10000, 30)>>,
     <<Match("PROD_004", "Power Cables", 7500, 25),
       Match("PROD_003", "Control Cables", 6500, 45)>>}

ReplayDeadlines == {NoDeadline, DateIn(1), DateIn(40)}

ReplayRecommendations ==
    {<<>>,
     <<Recommendation("PROD_001", "PROD_001")>>,
     <<Recommendation("PROD_003", "PROD_003"), Recommendation("X9", "X9")>>}

\* the first two values of the generator after random.seed(seed)
Streams == {<<v1, v2>> : v1 \in MarginVariations, v2 \in MarginVariations}

NotRun == [done |-> FALSE]

InitReplay ==
    \/ \E rfps \in ReplayTenders :
           replay = [pc |-> "running", op |-> "select_best_rfp", clock |-> 0,
                     rfps |-> rfps, outputs |-> <<>>]
    \/ \E b \in ReplayBriefs, ms \in MinScores :
           replay = [pc |-> "running", op |-> "match_products_advanced",
                     clock |-> 0, technical_brief |-> b, min_score |-> ms,
                     outputs |-> <<>>]
    \/ \E ms \in ReplayMatches, d \in ReplayDeadlines :
           replay = [pc |-> "running", op |-> "calculate_final_score",
                     clock |-> 0, matches |-> ms, rfp_deadline |-> d,
                     outputs |-> <<>>]
    \/ \E recs \in ReplayRecommendations, stream \in Streams :
           replay = [pc |-> "running", op |-> "calculate_tender_pricing",
                     clock |-> 0, oem_recommendations |-> recs,
                     stream |-> stream, outputs |-> <<>>]
    \/ \E recs1 \in ReplayRecommendations, recs2 \in ReplayRecommendations,
          stream \in Streams :
           replay = [pc |-> "running", op |-> "concurrent_pricing", clock |-> 0,
                     oem_recommendations |-> <<recs1, recs2>>,
                     stream |-> stream, drawn |-> 0,
                     results |-> <<NotRun, NotRun>>]

\* one run of the operation at the present clock; a pricing run is started
\* right after random.seed(seed)
RunOutput ==
    CASE replay.op = "select_best_rfp" ->
             SelectAt(replay.rfps, replay.clock)
      [] replay.op = "match_products_advanced" ->
             match_products_advanced(replay.technical_brief, MOCK_DATABASE,
                                     replay.min_score, 10)
      [] replay.op = "calculate_final_score" ->
             calculate_final_score(replay.matches, 1500000,
                                   AtClock(replay.rfp_deadline, replay.clock),
                                   WORKBOOK_DATABASE)
      [] replay.op = "calculate_tender_pricing" ->
             calculate_tender_pricing(replay.oem_recommendations, MOCK_DATABASE,
                                      replay.stream[1])

\* the operation is run, a first or a second time
RunOperation ==
    /\ replay.pc = "running"
    /\ replay.op # "concurrent_pricing"
    /\ replay' = [replay EXCEPT
           !.outputs = Append(@, RunOutput),
           !.pc = IF Len(replay.outputs) = 1 THEN "done" ELSE "running"]
    /\ UNCHANGED <<weights, normalizer, matcher, scorer, selector, pricer, pipeline, reader, helper>>

\* a day goes by between two runs
ClockAdvances ==
    /\ replay.pc = "running"
    /\ replay.op # "concurrent_pricing"
    /\ replay.clock < MaxDaysElapsed
    /\ replay' = [replay EXCEPT !.clock = @ + 1]
    /\ UNCHANGED <<weights, normalizer, matcher, scorer, selector, pricer, pipeline, reader, helper>>

\* one of two pricing runs started together after random.seed(seed) calls
\* calculate_tender_pricing: its random.uniform takes the next value of the
\* shared generator
ConcurrentPricingRun ==
    /\ replay.pc = "running"
    /\ replay.op = "concurrent_pricing"
    /\ \E r \in 1..2 :
          /\ ~replay.results[r].done
          /\ LET recs == replay.oem_recommendations[r]
                 draws == MarginApplied(recs, MOCK_DATABASE)
                 v == IF draws THEN replay.stream[replay.drawn + 1] ELSE 0
             IN  replay' = [replay EXCEPT
                     !.drawn = IF draws THEN @ + 1 ELSE @,
                     !.results[r] =
                         [done |-> TRUE,
                          tender_pricing |->
                              calculate_tender_pricing(recs, MOCK_DATABASE, v)],
                     !.pc = IF replay.results[3 - r].done THEN "done"
                            ELSE "running"]
    /\ UNCHANGED <<weights, normalizer, matcher, scorer, selector, pricer, pipeline, reader, helper>>

(***************************************************************************)
(* Single calls of fuzzy_match and of calculate_component_scores.          *)
(***************************************************************************)
\* "Copper"
ValueCopper ==
    <<"C","o","p","p","e","r">>

\* "CU"
ValueCu ==
    <<"C","U">>

\* "Aluminium"
ValueAluminium ==
    <<"A","l","u","m","i","n","i","u","m">>

\* "Galvanized Steel"
ValueGalvanizedSteel ==
    <<"G","a","l","v","a","n","i","z","e","d"," ","S","t","e","e","l">>

\* "Tinned Copper"
ValueTinnedCopper ==
    <<"T","i","n","n","e","d"," ","C","o","p","p","e","r">>

\* "XLPE"
ValueXlpe ==
    <<"X","L","P","E">>

\* "Rubber"
ValueRubber ==
    <<"R","u","b","b","e","r">>

\* "copper conductor"
HaystackCopper ==
    <<"c","o","p","p","e","r"," ","c","o","n","d","u","c","t","o","r">>

\* "Aluminium conductor"
HaystackAluminium ==
    <<"A","l","u","m","i","n","i","u","m"," ","c","o","n","d","u","c","t","o","r">>

\* "metal sheath"
HaystackMetal ==
    <<"m","e","t","a","l"," ","s","h","e","a","t","h">>

\* "steel wire armour"
HaystackSteel ==
    <<"s","t","e","e","l"," ","w","i","r","e"," ","a","r","m","o","u","r">>

\* "XLPE insulated"
HaystackXlpe ==
    <<"X","L","P","E"," ","i","n","s","u","l","a","t","e","d">>

\* "cross-linked polyethylene"
HaystackCrossLinked ==
    <<"c","r","o","s","s","-","l","i","n","k","e","d"," ","p","o","l","y","e","t","h","y","l","e","n","e">>

\* "fibre optic"
HaystackFibre ==
    <<"f","i","b","r","e"," ","o","p","t","i","c">>

FuzzyValues ==
    {<<>>, ValueCopper, ValueCu, ValueAluminium, ValueGalvanizedSteel, ValueTinnedCopper, ValueXlpe, ValueRubber}

FuzzyTexts ==
    {<<>>, HaystackCopper, HaystackAluminium, HaystackMetal, HaystackSteel, HaystackXlpe, HaystackCrossLinked, HaystackFibre}

\* "maintenance of 11kv cable"
TextMaintenance ==
    <<"m","a","i","n","t","e","n","a","n","c","e"," ","o","f"," ","1","1","k","v"," ","c","a","b","l","e">>

\* MOCK_ROW_1 with one attribute as an empty string, as an empty cell of the
\* workbook (NaN), or in no column at all
Blank == {Cell(<<>>), NaNCell, NoColumn}

RowsWithBlank ==
    {[MOCK_ROW_1 EXCEPT !.Voltage_Rating = b] : b \in Blank}
      \cup {[MOCK_ROW_1 EXCEPT !.Standards_Compliance = b] : b \in Blank}
      \cup {[MOCK_ROW_1 EXCEPT !.Conductor_Material = b] : b \in Blank}
      \cup {[MOCK_ROW_1 EXCEPT !.Insulation_Type = b] : b \in Blank}
      \cup {[MOCK_ROW_1 EXCEPT !.Armoring = b] : b \in Blank}

\* requirement texts as flatten_rfp_specs hands them on
RequirementTexts ==
    {normalize_text(TextScenario), normalize_text(TextFullMatch),
     normalize_text(TextNoMatch), normalize_text(TextMaintenance)}

HelperIdle == [pc |-> "idle"]

InitHelper ==
    \/ \E value \in FuzzyValues, text \in FuzzyTexts,
          synonyms \in {MATERIAL_SYNONYMS, INSULATION_SYNONYMS} :
           helper = [pc |-> "start", op |-> "fuzzy_match", value |-> value,
                     text |-> text, synonyms |-> synonyms]
    \/ \E product_row \in RowsWithBlank \cup {MOCK_ROW_1},
          rfp_text \in RequirementTexts :
           helper = [pc |-> "start", op |-> "calculate_component_scores",
                     product_row |-> product_row, rfp_text |-> rfp_text]

\* one call of fuzzy_match
FuzzyMatch ==
    /\ helper.pc = "start"
    /\ helper.op = "fuzzy_match"
    /\ helper' = [helper EXCEPT !.pc = "done"]
                    @@ [result |-> fuzzy_match(helper.value, helper.text,
                                               helper.synonyms)]
    /\ UNCHANGED <<weights, normalizer, matcher, scorer, selector, pricer, pipeline, reader, replay>>

\* one call of calculate_component_scores
CalculateComponentScores ==
    /\ helper.pc = "start"
    /\ helper.op = "calculate_component_scores"
    /\ helper' = [helper EXCEPT !.pc = "done"]
                    @@ [result |-> calculate_component_scores(helper.product_row,
                                                              helper.rfp_text)]
    /\ UNCHANGED <<weights, normalizer, matcher, scorer, selector, pricer, pipeline, reader, replay>>

(***************************************************************************)
(* Specifications.                                                         *)
(***************************************************************************)
InitWeights ==
    /\ SPEC_WEIGHTS = SPEC_WEIGHTS_TABLE
    /\ SCORING_WEIGHTS = SCORING_WEIGHTS_TABLE

OthersIdle(running) ==
    /\ "normalizer" \in running \/ normalizer = NormIdle
    /\ "matcher" \in running \/ matcher = MatcherIdle
    /\ "scorer" \in running \/ scorer = ScorerIdle
    /\ "selector" \in running \/ selector = SelectorIdle
    /\ "pricer" \in running \/ pricer = PricerIdle
    /\ "pipeline" \in running \/ pipeline = PipelineIdle
    /\ "reader" \in running \/ reader = ReaderIdle
    /\ "replay" \in running \/ replay = ReplayIdle
    /\ "helper" \in running \/ helper = HelperIdle

InitNormalize == InitWeights /\ InitNormalizer /\ OthersIdle({"normalizer"})

InitMatch == InitWeights /\ InitMatcher /\ OthersIdle({"matcher"})

InitScore == InitWeights /\ InitScorer /\ OthersIdle({"scorer"})

InitSelect == InitWeights /\ InitSelector /\ OthersIdle({"selector"})

InitPrice == InitWeights /\ InitPricer /\ OthersIdle({"pricer"})

\* the normaliser alone
SpecNormalize == InitNormalize /\ [][NormalizeInputs \/ NormalizeAgain]_vars

\* the matcher alone
SpecMatch == InitMatch /\ [][MatchProductsAdvanced]_vars

\* the scorer alone
SpecScore == InitScore /\ [][CalculateFinalScore]_vars

\* the selector alone
SpecSelect == InitSelect /\ [][SelectBestRfp]_vars

\* the pricer alone
SpecPrice ==
    InitPrice /\ [][CalculateTenderPricing \/ CalculateTestCosts
                     \/ ConsolidateFinalPricing]_vars

InitPipe == InitWeights /\ InitPipeline /\ OthersIdle({"pipeline"})

\* one run of the agent pipeline
SpecPipeline ==
    InitPipe /\ [][RunSalesAgent \/ RunMasterAgent \/ TechnicalAgentWrites
                    \/ PricingAgentReads \/ PricingAgentWrites
                    \/ RunConsolidator]_vars

InitRead == InitWeights /\ InitReader /\ OthersIdle({"reader"})

\* runs that load the catalog while the file on disk may be replaced
SpecCatalog ==
    InitRead /\ [][ScorerLoadsCatalog \/ PricerLoadsCatalog \/ ReplaceCatalog
                    \/ RunReturns]_vars

InitRepeat == InitWeights /\ InitReplay /\ OthersIdle({"replay"})

\* an operation run twice, or two pricing runs at once
SpecReplay ==
    InitRepeat /\ [][RunOperation \/ ClockAdvances \/ ConcurrentPricingRun]_vars

InitHelp == InitWeights /\ InitHelper /\ OthersIdle({"helper"})

\* single calls of the matching helpers
SpecHelper == InitHelp /\ [][FuzzyMatch \/ CalculateComponentScores]_vars

\* any one of the operations, on any of its inputs
Init ==
    \/ InitNormalize
    \/ InitMatch
    \/ InitScore
    \/ InitSelect
    \/ InitPrice
    \/ InitPipe
    \/ InitRead
    \/ InitRepeat
    \/ InitHelp

Next ==
    \/ NormalizeInputs
    \/ NormalizeAgain
    \/ MatchProductsAdvanced
    \/ CalculateFinalScore
    \/ SelectBestRfp
    \/ CalculateTenderPricing
    \/ CalculateTestCosts
    \/ ConsolidateFinalPricing
    \/ RunSalesAgent
    \/ RunMasterAgent
    \/ TechnicalAgentWrites
    \/ PricingAgentReads
    \/ PricingAgentWrites
    \/ RunConsolidator
    \/ ScorerLoadsCatalog
    \/ PricerLoadsCatalog
    \/ ReplaceCatalog
    \/ RunReturns
    \/ RunOperation
    \/ ClockAdvances
    \/ ConcurrentPricingRun
    \/ FuzzyMatch
    \/ CalculateComponentScores

Spec == Init /\ [][Next]_vars

(***************************************************************************)
(* Properties of the opportunity scorer.                                   *)
(***************************************************************************)
ScorerReturned == scorer.pc = "done" /\ scorer.result.status = "returned"

\* the weighted sum of the reported component scores, in 1/10000
ReportedWeightedSum ==
    LET c == scorer.result.component_scores
    IN  35 * c.technical_match + 25 * c.price_competitiveness
          + 15 * c.delivery_capability + 15 * c.compliance + 10 * c.risk_score

\* C1: whenever calculate_final_score reports a result, its final_score is
\* technical*0.35 + price*0.25 + delivery*0.15 + compliance*0.15 + risk*0.10
\* rounded to 2 decimals (within half a hundredth of the sum), and lies in
\* [0,100].
FinalScoreIsWeightedSum ==
    ScorerReturned =>
        /\ 100 * scorer.result.final_score - ReportedWeightedSum <= 50
        /\ ReportedWeightedSum - 100 * scorer.result.final_score <= 50
        /\ scorer.result.final_score >= 0
        /\ scorer.result.final_score <= 10000

\* a result for a non-empty match list whose weighted sum had to be rounded
FinalScoreWasRounded ==
    /\ ScorerReturned
    /\ scorer.matches # <<>>
    /\ scorer.result.final_score > 0
    /\ ReportedWeightedSum % 100 # 0

\* the grade of a reported score, in hundredths, by inclusive lower bounds
GradeOfReported(reported) ==
    IF reported >= 8500 THEN "A+"
    ELSE IF reported >= 7500 THEN "A"
    ELSE IF reported >= 6500 THEN "B+"
    ELSE IF reported >= 5500 THEN "B"
    ELSE IF reported >= 4500 THEN "C"
    ELSE "D"

\* C2: the grade of a result agrees with the final_score reported in the same
\* result: >= 85 is A+, >= 75 is A, >= 65 is B+, >= 55 is B, >= 45 is C,
\* otherwise D.
GradeAgreesWithReportedScore ==
    ScorerReturned =>
        scorer.result.grade = GradeOfReported(scorer.result.final_score)

\* C3: calculate_final_score never raises: every call returns a complete
\* result (final_score, grade, five component scores, five weighted
\* contributions, recommendation).
ScorerAlwaysReturns ==
    scorer.pc = "done" =>
        /\ scorer.result.status = "returned"
        /\ {"final_score", "grade", "component_scores", "weighted_contributions",
            "recommendation"} \subseteq DOMAIN scorer.result
        /\ Cardinality(DOMAIN scorer.result.component_scores) = 5
        /\ Cardinality(DOMAIN scorer.result.weighted_contributions) = 5

(***************************************************************************)
(* Properties of the specification matcher.                                *)
(***************************************************************************)
AllComponents(c, v) ==
    /\ c.voltage = v /\ c.standards = v /\ c.conductor = v
    /\ c.insulation = v /\ c.cores = v /\ c.armoring = v

\* C4: the weighted match score of every product is the sum over the six
\* components of component_score * weight, to 2 decimals: exactly 100 when
\* all six components match, exactly 0 when none does, always in [0,100].
WeightedScoreIsWeightedSum ==
    matcher.pc = "returned" =>
        \A i \in DOMAIN matcher.scored :
            LET m == matcher.scored[i]
                c == m.component_scores
            IN  /\ m.spec_match_percent =
                       25 * c.voltage + 20 * c.standards + 18 * c.conductor
                         + 15 * c.insulation + 12 * c.cores + 10 * c.armoring
                /\ AllComponents(c, 100) => m.spec_match_percent = 10000
                /\ AllComponents(c, 0) => m.spec_match_percent = 0
                /\ m.spec_match_percent >= 0
                /\ m.spec_match_percent <= 10000

\* a product whose six components all match has been scored
AllComponentsMatched ==
    /\ matcher.pc = "returned"
    /\ \E i \in DOMAIN matcher.scored :
           AllComponents(matcher.scored[i].component_scores, 100)

\* the scored products that are not in the returned list
MissingRows ==
    {i \in DOMAIN matcher.scored :
        \A j \in DOMAIN matcher.returned :
            matcher.returned[j].product_id # matcher.scored[i].product_id}

\* C5: the list match_products_advanced returns is sorted in non-increasing
\* spec_match_percent, has at most max_results entries, holds only products
\* whose weighted score is >= min_score (a score equal to min_score is kept:
\* below max_results entries no such product is missing), and a product with
\* score >= min_score that is missing scores no higher than any listed one.
ReturnedListIsRanked ==
    matcher.pc = "returned" =>
        LET returned == matcher.returned
            scored == matcher.scored
        IN  /\ \A j \in 1..(Len(returned) - 1) :
                   returned[j].spec_match_percent >= returned[j + 1].spec_match_percent
            /\ Len(returned) <= matcher.max_results
            /\ \A j \in DOMAIN returned :
                   /\ returned[j].spec_match_percent >= matcher.min_score
                   /\ \E i \in DOMAIN scored : scored[i] = returned[j]
            /\ \A i \in MissingRows :
                   scored[i].spec_match_percent >= matcher.min_score =>
                       \A j \in DOMAIN returned :
                           scored[i].spec_match_percent <= returned[j].spec_match_percent
            /\ Len(returned) < matcher.max_results =>
                   \A i \in MissingRows :
                       scored[i].spec_match_percent < matcher.min_score

\* the list was cut at max_results and a product that passed the threshold
\* is missing from it
ReturnedListWasTruncated ==
    /\ matcher.pc = "returned"
    /\ Len(matcher.returned) >= 2
    /\ \E i \in MissingRows :
           matcher.scored[i].spec_match_percent >= matcher.min_score

\* C6: the text "Voltage Rating: 11 kV, Conductor: Copper, Insulation: XLPE,
\* Cores: 3" against a product with voltage 11kV, conductor Copper, insulation
\* XLPE, 3 cores, armoring SWA and no standards text gives voltage 100,
\* conductor 100, insulation 100, cores 100, armoring 0, standards 0 and a
\* weighted total of 70.00.
ScenarioScoresSeventy ==
    (matcher.pc = "returned" /\ matcher.technical_brief = Brief(<<>>, TextScenario)) =>
        \A i \in DOMAIN matcher.scored :
            matcher.scored[i].product_id \in {"CAT_101", "CAT_102"} =>
                /\ matcher.scored[i].component_scores =
                       [voltage |-> 100, standards |-> 0, conductor |-> 100,
                        insulation |-> 100, cores |-> 100, armoring |-> 0]
                /\ matcher.scored[i].spec_match_percent = 7000

(***************************************************************************)
(* Properties of the weight tables.                                        *)
(***************************************************************************)
WeightTablesSumToOne ==
    /\ DOMAIN SPEC_WEIGHTS = SpecNames
    /\ SPEC_WEIGHTS.voltage + SPEC_WEIGHTS.standards + SPEC_WEIGHTS.conductor
         + SPEC_WEIGHTS.insulation + SPEC_WEIGHTS.cores + SPEC_WEIGHTS.armoring = 100
    /\ DOMAIN SCORING_WEIGHTS =
           {"technical_match", "price_competitiveness", "delivery_capability",
            "compliance", "risk_score"}
    /\ SCORING_WEIGHTS.technical_match + SCORING_WEIGHTS.price_competitiveness
         + SCORING_WEIGHTS.delivery_capability + SCORING_WEIGHTS.compliance
         + SCORING_WEIGHTS.risk_score = 100

\* C7: SPEC_WEIGHTS and SCORING_WEIGHTS each sum to exactly 1.0, and no
\* operation of the program changes either table.
WeightTablesAreFixed ==
    /\ []WeightTablesSumToOne
    /\ [][SPEC_WEIGHTS' = SPEC_WEIGHTS /\ SCORING_WEIGHTS' = SCORING_WEIGHTS]_vars

\* the matcher has used its table on a catalog and returned matches
WeightsAfterMatching ==
    /\ matcher.pc = "returned"
    /\ matcher.returned # <<>>
    /\ WeightTablesSumToOne

(***************************************************************************)
(* Properties of normalize_text.                                           *)
(***************************************************************************)
\* C8: normalize_text is idempotent: normalize_text(normalize_text(x)) ==
\* normalize_text(x) for every string x.
NormalizeIsIdempotent ==
    normalizer.pc = "twice" => normalizer.ffx = normalizer.fx

IsAlnum(c) == c \in Range(UPPER) \cup Range(LOWER) \cup Range(DIGITS)

\* the lower-cased alphanumeric words of a string
RECURSIVE WordsOf(_, _, _)
WordsOf(s, word, words) ==
    IF s = <<>> THEN (IF word = <<>> THEN words ELSE Append(words, word))
    ELSE IF IsAlnum(Head(s))
         THEN WordsOf(Tail(s), Append(word, LowerChar(Head(s))), words)
         ELSE WordsOf(Tail(s), <<>>, IF word = <<>> THEN words ELSE Append(words, word))

\* x and y differ only in letter case, in the characters between their words
\* and in the amount of whitespace
SameWords(x, y) == WordsOf(x, <<>>, <<>>) = WordsOf(y, <<>>, <<>>)

Trimmed(s) == s = <<>> \/ (s[1] # " " /\ s[Len(s)] # " ")

\* C9: normalize_text ignores case, punctuation and runs of whitespace and
\* trims its result: strings that differ only in these normalize to the same
\* string, e.g. "XLPE  Cable!" and "xlpe cable", and the result never starts
\* or ends with a space.
NormalizeIsCanonical ==
    normalizer.pc \in {"once", "twice"} =>
        /\ SameWords(normalizer.x, normalizer.y) => normalizer.fx = normalizer.fy
        /\ Trimmed(normalizer.fx)

(***************************************************************************)
(* Properties of the tender selector.                                      *)
(***************************************************************************)
SelectorScored ==
    /\ selector.pc = "done"
    /\ ~selector.scraped_data.none
    /\ selector.scraped_data.error = ""
    /\ selector.scraped_data.data # <<>>

\* the highest score among the input tenders
TopScore ==
    LET data == selector.scraped_data.data
    IN  CHOOSE t \in {score(data[i]) : i \in DOMAIN data} :
            \A i \in DOMAIN data : score(data[i]) <= t

\* the first position of the input list that has the highest score
FirstTop ==
    LET data == selector.scraped_data.data
    IN  CHOOSE i \in DOMAIN data :
            /\ score(data[i]) = TopScore
            /\ \A j \in 1..(i - 1) : score(data[j]) < TopScore

\* C10: for a non-empty tender list select_best_rfp returns a tender whose
\* score is the maximum over the input tenders, and among several tenders
\* with that maximum the one that comes first in the input list.
SelectsFirstMaximum ==
    SelectorScored =>
        /\ selector.result.status = "selected"
        /\ selector.result.best.sales_score = TopScore
        /\ selector.result.best =
               selector.scraped_data.data[FirstTop] @@ [sales_score |-> TopScore]

\* two different tenders of the input share the highest score
TwoTendersShareTop ==
    /\ SelectorScored
    /\ \E i, j \in DOMAIN selector.scraped_data.data :
           /\ i < j
           /\ score(selector.scraped_data.data[i]) = TopScore
           /\ score(selector.scraped_data.data[j]) = TopScore
           /\ selector.scraped_data.data[i] # selector.scraped_data.data[j]

\* C11: a tender whose parsed deadline is already in the past gets an urgency
\* contribution of exactly 0, so its score is keyword_score + category_bonus,
\* and the urgency term never exceeds 30 for any deadline.
PastDeadlineHasNoUrgency ==
    selector.pc = "done" =>
        \A i \in DOMAIN selector.scored :
            LET rfp == selector.scored[i]
                urgency == rfp.sales_score - keyword_score(rfp) - category_bonus(rfp)
            IN  /\ (rfp.submission_deadline.kind = "date"
                      /\ rfp.submission_deadline.days < 0) => urgency = 0
                /\ urgency <= 3000

\* C12: given no input, scraper output that carries an error, or an empty
\* tender list, select_best_rfp returns an error value (no_input_data, the
\* scraper's error, no_rfps_found) instead of a tender, does not raise and
\* scores no tender.
NoTendersGivesError ==
    (/\ selector.pc = "done"
     /\ \/ selector.scraped_data.none
        \/ selector.scraped_data.error # ""
        \/ selector.scraped_data.data = <<>>) =>
        /\ selector.result.status = "error"
        /\ "best" \notin DOMAIN selector.result
        /\ selector.scored = <<>>
        /\ selector.result.error =
               IF selector.scraped_data.none THEN "no_input_data"
               ELSE IF selector.scraped_data.error # "" THEN selector.scraped_data.error
               ELSE "no_rfps_found"

\* the scraper delivered an empty tender list and the call returned
EmptyTenderListRejected ==
    /\ selector.pc = "done"
    /\ ~selector.scraped_data.none
    /\ selector.scraped_data.error = ""
    /\ selector.scraped_data.data = <<>>
    /\ selector.result.status = "error"

(***************************************************************************)
(* Properties of the pricer.                                               *)
(***************************************************************************)
PricerPriced == pricer.pc \in {"priced", "tested", "done"}

\* the tier base of the margin policy, in 1/100 of a percent: 15% above
\* 500,000, 20% from 200,000 to 500,000 (both included), 25% below 200,000
TierMargin(base_cost) ==
    IF base_cost > 500000 THEN 1500
    ELSE IF base_cost >= 200000 THEN 2000
    ELSE 2500

\* C13: for base_cost > 0 the applied margin is within 5 percentage points
\* of the tier base - 15% above 500,000, 20% for 200,000 <= base_cost <=
\* 500,000, 25% below 200,000 - and within [10%, 35%]; a base above 500,000
\* gets a margin in [10%, 20%].
MarginFollowsTier ==
    (PricerPriced /\ pricer.tender_pricing.base_total > 0) =>
        LET base_cost == pricer.tender_pricing.base_total
            margin == pricer.tender_pricing.margin_percentage
        IN  /\ margin >= TierMargin(base_cost) - 500
            /\ margin <= TierMargin(base_cost) + 500
            /\ margin >= 1000
            /\ margin <= 3500
            /\ base_cost > 500000 => margin <= 2000

\* base_total * (1 + margin_percentage / 100) in paise, from the reported
\* base total (INR) and margin (1/100 of a percent)
MaterialFromReported(base_total, margin_percentage) ==
    base_total * 100 + (base_total \div 100) * margin_percentage
      + RoundDiv((base_total % 100) * margin_percentage, 100)

\* C14: every consolidated pricing result has, on its reported fields,
\* material_total == base_total * (1 + margin_percentage/100) (to the paisa)
\* and grand_total == material_total + testing_total.
PriceBreakdownHolds ==
    pricer.pc = "done" =>
        LET m == pricer.price_table.material_costs
            expected == MaterialFromReported(m.base_total, m.margin_percentage)
        IN  /\ m.material_total - expected <= 1
            /\ expected - m.material_total <= 1
            /\ pricer.price_table.summary.grand_total =
                   m.material_total + pricer.price_table.testing_costs.testing_total

\* C15: with an empty match list pricing yields base_total 0, margin 0 and
\* material_total 0, no margin is drawn, and the consolidated grand_total
\* equals the test subtotal.
EmptyMatchesPriceZero ==
    (pricer.pc = "done" /\ pricer.oem_recommendations = <<>>) =>
        /\ pricer.tender_pricing.base_total = 0
        /\ pricer.tender_pricing.margin_percentage = 0
        /\ pricer.tender_pricing.final_price = 0
        /\ pricer.draws = <<>>
        /\ pricer.price_table.material_costs.base_total = 0
        /\ pricer.price_table.material_costs.margin_percentage = 0
        /\ pricer.price_table.material_costs.material_total = 0
        /\ pricer.price_table.summary.grand_total =
               pricer.price_table.testing_costs.testing_total

\* an empty match list was priced for a brief that requires tests
EmptyMatchesWithTests ==
    /\ pricer.pc = "done"
    /\ pricer.oem_recommendations = <<>>
    /\ pricer.price_table.testing_costs.testing_total > 0

\* a field that marks the table as one without products
HasNoProductsMarker(price_table) ==
    \E part \in {price_table, price_table.material_costs, price_table.summary} :
        DOMAIN part \cap {"error", "no_products", "status", "note"} # {}

\* C16: the consolidated result for an empty match list carries an explicit
\* "no products" marker, so it differs from the consolidated result of every
\* non-empty match list whose material total is zero.
NoProductsIsMarked ==
    (pricer.pc = "done" /\ pricer.oem_recommendations = <<>>) =>
        /\ HasNoProductsMarker(pricer.price_table)
        /\ \A recs \in ListsUpTo(RecommendationPool, 1) \ {<<>>} :
               consolidate_final_pricing(
                   calculate_tender_pricing(recs, pricer.product_db, 0),
                   pricer.test_costs_info) # pricer.price_table

\* the recommendations calculate_tender_pricing prices: those with an id
WithId(recs) == SelectSeq(recs, LAMBDA m : ~m.none /\ IdOf(m) # "")

InCatalog(product_id, product_db) ==
    \E i \in DOMAIN product_db : product_db[i].Product_ID = product_id

FirstRow(product_id, product_db) ==
    product_db[CHOOSE i \in DOMAIN product_db :
                   /\ product_db[i].Product_ID = product_id
                   /\ \A j \in 1..(i - 1) : product_db[j].Product_ID # product_id]

\* unit_price * min_order_qty * 1.0 for a catalog product, 50,000 otherwise
ExpectedCost(product_id, product_db) ==
    IF InCatalog(product_id, product_db)
    THEN FirstRow(product_id, product_db).Unit_Price_INR_per_meter
           * FirstRow(product_id, product_db).Min_Order_Qty_Meters
    ELSE 50000

RECURSIVE ExpectedBase(_, _)
ExpectedBase(recs, product_db) ==
    IF recs = <<>> THEN 0
    ELSE ExpectedCost(IdOf(Head(recs)), product_db)
           + ExpectedBase(Tail(recs), product_db)

\* C17: the base total of calculate_tender_pricing is the sum, over every
\* match that has a product id, of unit_price * min_order_qty when the id is
\* in the catalog and of the fallback 50,000 when it is not; a fallback line
\* is flagged not_found, a catalog line calculated, and nothing is raised.
BaseTotalIsSumOfLines ==
    PricerPriced =>
        LET recs == WithId(pricer.oem_recommendations)
            product_db == pricer.product_db
            lines == pricer.tender_pricing.product_costs
        IN  /\ Len(lines) = Len(recs)
            /\ \A i \in DOMAIN lines :
                   /\ lines[i].product_id = IdOf(recs[i])
                   /\ IF InCatalog(lines[i].product_id, product_db)
                      THEN /\ lines[i].status = "calculated"
                           /\ lines[i].product_cost =
                                  ExpectedCost(lines[i].product_id, product_db)
                      ELSE /\ lines[i].status = "not_found"
                           /\ lines[i].cost = 50000
            /\ pricer.tender_pricing.base_total = ExpectedBase(recs, product_db)

\* a pricing with one line from the catalog and one fallback line
CatalogAndFallbackLines ==
    /\ PricerPriced
    /\ \E i, j \in DOMAIN pricer.tender_pricing.product_costs :
           /\ pricer.tender_pricing.product_costs[i].status = "calculated"
           /\ pricer.tender_pricing.product_costs[i].product_cost > 0
           /\ pricer.tender_pricing.product_costs[j].status = "not_found"

\* the requirement text with case, punctuation and whitespace runs ignored
NormalizedText(text) == JoinSpace(WordsOf(text, <<>>, <<>>))

RECURSIVE ExpectedTestTotal(_, _)
ExpectedTestTotal(i, text) ==
    IF i > Len(TEST_PRICE_MAP) THEN 0
    ELSE (IF In(TEST_PRICE_MAP[i][1], text) THEN TEST_PRICE_MAP[i][2] ELSE 0)
           + ExpectedTestTotal(i + 1, text)

\* C18: the test subtotal of calculate_test_costs is the sum of the table
\* prices of exactly those vocabulary test names that occur in the normalized
\* requirement text (case, punctuation and whitespace runs ignored), each
\* name counted at most once.
TestSubtotalFromNormalizedText ==
    (pricer.pc \in {"tested", "done"} /\ ~pricer.pricing_brief.none) =>
        LET info == pricer.test_costs_info
        IN  /\ info.total_test_cost =
                   ExpectedTestTotal(1, NormalizedText(
                                            pricer.pricing_brief.tests_and_acceptance))
            /\ \A i, j \in DOMAIN info.test_costs :
                   i # j => info.test_costs[i].test # info.test_costs[j].test

(***************************************************************************)
(* Properties of the pipeline.                                             *)
(***************************************************************************)
\* C19: pricing for a tender strictly follows matching for the same tender:
\* the pricing agent reads oem_recommendations only after the technical
\* agent has written it in this run, never an absent or stale value.
PricingFollowsMatching ==
    pipeline.pricing \in {"read", "done"} =>
        /\ pipeline.pricing_input.present
        /\ pipeline.pricing_input.tender = pipeline.tender

(***************************************************************************)
(* Properties of the catalog loads.                                        *)
(***************************************************************************)
\* C20: within one calculate_final_score call and within one
\* calculate_tender_pricing call, every catalog lookup sees the same catalog
\* snapshot, also when the catalog is replaced between the lookups of the run.
EveryLookupSeesOneSnapshot ==
    reader.pc # "idle" =>
        \A i, j \in DOMAIN reader.loads :
            reader.loads[i].product_db = reader.loads[j].product_db

(***************************************************************************)
(* Properties of repeated and concurrent runs.                             *)
(***************************************************************************)
\* what a pricing run returns when it runs alone after random.seed(seed)
PricedAlone(r) ==
    calculate_tender_pricing(replay.oem_recommendations[r], MOCK_DATABASE,
                             replay.stream[1])

\* C21: with the random source fixed to a seed, running tender selection,
\* matching, pricing or opportunity scoring twice on the same inputs gives the
\* same output, and a pricing run returns what it returns when it runs alone,
\* however another pricing run interleaves with it.
RunsAreReproducible ==
    /\ replay.pc = "done" /\ replay.op # "concurrent_pricing" =>
           replay.outputs[1] = replay.outputs[2]
    /\ replay.pc # "idle" /\ replay.op = "concurrent_pricing" =>
           \A r \in 1..2 :
               replay.results[r].done =>
                   replay.results[r].tender_pricing = PricedAlone(r)

(***************************************************************************)
(* Further properties of the product matcher.                              *)
(***************************************************************************)
MatcherReturned == matcher.pc = "returned"

\* no row of the catalog has a weighted score of min_score or more
NoRowReaches(product_db, rfp_text, min_score) ==
    \A i \in DOMAIN product_db :
        calculate_weighted_score(
            calculate_component_scores(product_db[i], rfp_text)) < min_score

\* C22: match_products_advanced returns the empty list when the technical
\* brief is empty, when its flattened requirement text is empty, when the
\* catalog is empty, and when no product reaches min_score.
EmptyCasesReturnEmptyList ==
    MatcherReturned =>
        LET rfp_text == flatten_rfp_specs(matcher.technical_brief)
        IN  (\/ matcher.technical_brief.none
             \/ rfp_text = <<>>
             \/ matcher.product_db = <<>>
             \/ NoRowReaches(matcher.product_db, rfp_text, matcher.min_score))
                => matcher.returned = <<>>

\* a call on a brief with requirement text and a catalog with rows, none of
\* which reaches min_score, has returned
NoRowReachedThreshold ==
    /\ MatcherReturned
    /\ ~matcher.technical_brief.none
    /\ matcher.rfp_text # <<>>
    /\ matcher.product_db # <<>>
    /\ matcher.max_results > 0
    /\ NoRowReaches(matcher.product_db, matcher.rfp_text, matcher.min_score)
    /\ matcher.returned = <<>>

(***************************************************************************)
(* Further properties of the tender selector.                              *)
(***************************************************************************)
Undated(rfp) == rfp.submission_deadline.kind # "date"

CatalogIndex(product_id) ==
    CHOOSE i \in DOMAIN matcher.product_db :
        matcher.product_db[i].Product_ID = product_id

\* C24: in the list match_products_advanced returns, two products of equal
\* weighted score are in catalog order, and of the products of one score the
\* cut at max_results keeps those that come first in the catalog.
TiesKeepCatalogOrder ==
    MatcherReturned =>
        LET returned == matcher.returned
            scored == matcher.scored
        IN  /\ \A j, k \in DOMAIN returned :
                   (j < k /\ returned[j].spec_match_percent
                               = returned[k].spec_match_percent)
                       => CatalogIndex(returned[j].product_id)
                            < CatalogIndex(returned[k].product_id)
            /\ \A i \in MissingRows, j \in DOMAIN returned :
                   (scored[i].spec_match_percent = returned[j].spec_match_percent)
                       => CatalogIndex(returned[j].product_id) < i

\* two products of equal score were returned and a third of that score was
\* cut off
TieAcrossTheCut ==
    /\ MatcherReturned
    /\ \E j, k \in DOMAIN matcher.returned :
           /\ j < k
           /\ matcher.returned[j].spec_match_percent
                = matcher.returned[k].spec_match_percent
           /\ \E i \in MissingRows :
                  matcher.scored[i].spec_match_percent
                    = matcher.returned[k].spec_match_percent

(***************************************************************************)
(* Further properties of the opportunity scorer.                           *)
(***************************************************************************)
\* the delivery score, in hundredths, that the penalty table gives for a
\* deadline `days` away: base = max(0, 100 - 1.1 * avg_lead_time), less 50 if
\* buffer < 0, 30 if buffer < 14, 15 if buffer < 30, floored at 0
TableDelivery(matches, days) ==
    LET truthy == Truthy(matches)
        n == Len(truthy)
        total_lead == SumSeq([i \in DOMAIN truthy |-> truthy[i].lead_time_days])
        \* with no usable match the average lead time is 0
        d == IF n = 0 THEN 1 ELSE n
        buffer_d == days * d - total_lead
        penalty == IF buffer_d < 0 THEN 50
                   ELSE IF buffer_d < 14 * d THEN 30
                   ELSE IF buffer_d < 30 * d THEN 15 ELSE 0
        base_d == Max(0, 10000 * d - 110 * total_lead)
    IN  RoundDiv(Max(0, base_d - 100 * penalty * d), d)

\* C25: with a deadline that parses, score_delivery_capability returns
\* max(0, base - penalty), the penalty chosen by buffer = days_until_deadline
\* - avg_lead_time, for every deadline, one that is today or past included.
DeliveryFollowsPenaltyTable ==
    (/\ ScorerReturned
     /\ scorer.matches # <<>>
     /\ scorer.rfp_deadline.kind = "date") =>
        scorer.result.component_scores.delivery_capability
            = TableDelivery(scorer.matches, scorer.rfp_deadline.days)

\* the matches in descending order of spec_match_percent
ByPercent(matches) ==
    LET truthy == Truthy(matches)
        keyed == [i \in DOMAIN truthy |->
                     [key |-> truthy[i].spec_match_percent, item |-> truthy[i]]]
        sorted == SortDesc(keyed)
    IN  [i \in DOMAIN sorted |-> sorted[i].item]

\* C26: score_technical_match weighs the (up to) five matches of highest
\* match percentage, the highest at rank 0, whatever the order of the input
\* list, and reports the maximum match percentage as top_match_percent.
TechnicalMatchRanksByPercent ==
    scorer.pc = "done" =>
        LET as_given == score_technical_match(scorer.matches)
            ranked == ByPercent(scorer.matches)
            as_ranked == score_technical_match(ranked)
        IN  /\ as_given.technical_score = as_ranked.technical_score
            /\ as_given.top_match_percent = as_ranked.top_match_percent
            /\ ScorerReturned =>
                   scorer.result.component_scores.technical_match
                       = as_ranked.technical_score

(***************************************************************************)
(* Properties of the component scores.                                     *)
(***************************************************************************)
\* the requirement text mentions "is", "iec", "ieee" or "bis"
MentionsStandard(rfp_text) ==
    \/ In(<<"i","s">>, rfp_text)
    \/ In(<<"i","e","c">>, rfp_text)
    \/ In(<<"i","e","e","e">>, rfp_text)
    \/ In(<<"b","i","s">>, rfp_text)

\* C27: every component score of calculate_component_scores is 0 or 100,
\* except standards, which is 100 when the product's normalized standards
\* string is a substring of the requirement text, otherwise 60 when the text
\* contains "is", "iec", "ieee" or "bis", otherwise 0.
ComponentsAreBinaryButStandards ==
    MatcherReturned =>
        \A i \in DOMAIN matcher.scored :
            LET c == matcher.scored[i].component_scores
                standards ==
                    normalize_text(str_get(matcher.product_db[i].Standards_Compliance))
            IN  /\ \A spec \in SpecNames \ {"standards"} : c[spec] \in {0, 100}
                /\ c.standards =
                       IF In(standards, matcher.rfp_text) THEN 100
                       ELSE IF MentionsStandard(matcher.rfp_text) THEN 60 ELSE 0

\* one product of the catalog got full credit for standards, another the
\* partial credit
FullAndPartialStandards ==
    /\ MatcherReturned
    /\ \E i, j \in DOMAIN matcher.scored :
           /\ matcher.scored[i].component_scores.standards = 100
           /\ matcher.scored[j].component_scores.standards = 60

(***************************************************************************)
(* Properties of fuzzy_match and of absent attributes.                     *)
(***************************************************************************)
\* the variant stands in the normalized value as a word or a run of words
NamesVariant(norm_value, variant) ==
    In(<<" ">> \o variant \o <<" ">>, <<" ">> \o norm_value \o <<" ">>)

\* the synonym groups of the value's own canonical term: those a variant of
\* which the value is, or names
OwnGroups(norm_value, synonyms) ==
    {g \in DOMAIN synonyms :
        \E v \in Range(synonyms[g][2]) : NamesVariant(norm_value, v)}

\* C28: fuzzy_match(value, text, synonyms) is true exactly when the normalized
\* value is a substring of the normalized text, or a variant of the synonym
\* group of the value's own canonical term is a substring of the normalized
\* text; variants of another group never make it true.
FuzzyMatchUsesOwnGroup ==
    (helper.pc = "done" /\ helper.op = "fuzzy_match") =>
        LET norm_value == normalize_text(helper.value)
            norm_text == normalize_text(helper.text)
        IN  helper.result <=>
                \/ In(norm_value, norm_text)
                \/ \E g \in OwnGroups(norm_value, helper.synonyms) :
                       \E v \in Range(helper.synonyms[g][2]) : In(v, norm_text)

\* the component scored from each attribute of the product table
AttributeOf ==
    [voltage |-> "Voltage_Rating", standards |-> "Standards_Compliance",
     conductor |-> "Conductor_Material", insulation |-> "Insulation_Type",
     armoring |-> "Armoring"]

\* the attribute is an empty string, an empty cell, or has no column
IsBlank(cell) == cell.kind # "str" \/ cell.val = <<>>

\* C30: a product whose voltage, standards, conductor, insulation or armoring
\* field is empty or missing scores 0 on that component for every requirement
\* text.
BlankAttributeScoresZero ==
    (helper.pc = "done" /\ helper.op = "calculate_component_scores") =>
        \A spec \in DOMAIN AttributeOf :
            IsBlank(helper.product_row[AttributeOf[spec]])
                => helper.result[spec] = 0

(***************************************************************************)
(* Properties of the session state of the pipeline.                        *)
(***************************************************************************)
\* C29: in a run of RFPResponsePipeline every session-state key an agent reads
\* (best_sales_rfp, master_output, pricing_brief, oem_recommendations,
\* price_table) has been written under that key by an agent that completed
\* earlier in the run.
EveryReadFollowsItsWrite ==
    pipeline.pc # "idle" =>
        \A i \in DOMAIN pipeline.reads :
            /\ pipeline.reads[i].value.present
            /\ pipeline.reads[i].value.tender = pipeline.tender

====
